---- MODULE Spec2Model ----
(***************************************************************************)
(* Workflow engine of the AI tool recommendation agent.                    *)
(*                                                                         *)
(* The model follows agent/graph.py (the LangGraph graph and its           *)
(* interrupt), agent/nodes/*.py (one action per node), agent/routing.py    *)
(* (the conditional edges), agent/hitl.py (feedback interpretation) and    *)
(* app/api/routes.py (the /chat/start and /chat/approve handlers and the   *)
(* active_sessions store).  One conversation thread is modelled; the       *)
(* outputs of the reasoning service and of the tools are the inputs of    *)
(* the actions.                                                            *)
(*                                                                         *)
(* A handler of routes.py is an async function without an await inside,    *)
(* so two API handlers never interleave: `running` says which handler's    *)
(* graph.stream loop is executing, and a handler starts only when none is. *)
(***************************************************************************)
EXTENDS Integers, Sequences, FiniteSets, TLC

\* ------------------------------------------------------------------ bounds
\* Longest sub-task list the planner or the plan revision returns.
MaxPlanLen == 3

\* ------------------------------------------------------- program constants
\* core/config.py: MAX_TOOL_CALLS_PER_TASK = 3
MAX_TOOL_CALLS_PER_TASK == 3

None == "None"
\* ChatResponse.plan = None, kept a sequence so that responses compare
AbsentPlan == <<None>>
ThreadId == "t1"
UserQuery == "user_query"

\* recommend.py line 45: the generic text recorded when the call bound is hit
FALLBACK_TEXT == "fallback_text"
\* response.content of a reasoning call that requests no tool
LLM_CONTENT == "llm_content"

\* tools/registry.py execute_tool: the names of tools_map
ToolsMap ==
    {"retrieve_docs", "read_memory", "write_memory", "google_search_tool",
     "calculate_subscription_cost", "calculate_math", "check_tool_freshness",
     "get_current_time"}

\* agent/nodes/simple_executor.py: the names of SIMPLE_TOOLS_MAP
SIMPLE_TOOLS_MAP ==
    {"get_current_time", "google_search_tool", "calculate_subscription_cost",
     "check_tool_freshness"}

\* Tool names the reasoning service may put in a tool call (one retrieval
\* tool, the web search, one plain tool, and a name no registry knows).
RequestedTools ==
    {"retrieve_docs", "google_search_tool", "calculate_math", "no_such_tool"}

\* graph.py line 122: interrupt_before=["human_approval_node"]
InterruptBefore == {"human_approval_node"}

VARIABLES
    \* --- AgentState (agent/state.py), names as in the source
    is_complex_task,
    sub_tasks,
    tool_recommendations,   \* function: task number k (key "task_k") -> text
    user_feedback,
    final_guide,
    final_answer,
    current_task_idx,
    tool_call_count,
    simple_tool_count,
    tool_result,            \* None, or the name of the requested tool
    error,
    \* --- engine and API
    next_node,              \* the node the graph runs next ("END" when done)
    fresh_resume,           \* stream(None) has just resumed: the interrupt it
                            \* stopped at does not fire again
    running,                \* "none" | "start" | "approve"
    active_sessions,        \* routes.py active_sessions (its keys)
    response,               \* the last ChatResponse / HTTP error returned
    \* --- history (observation only; never read by an action's guard)
    executed,               \* nodes executed in this conversation
    last_input,             \* the reasoning output the last step consumed
    feedback_branch,        \* branch handle_human_feedback took, or "none"
    task_execs,             \* tool executions for the current sub-task
    simple_runs,            \* runs of the two steps of the simple path
    ended                   \* one record per finished sub-task

agent_vars ==
    <<is_complex_task, sub_tasks, tool_recommendations, user_feedback,
      final_guide, final_answer, current_task_idx, tool_call_count,
      simple_tool_count, tool_result, error>>
engine_vars == <<next_node, fresh_resume, running, active_sessions, response>>
hist_vars ==
    <<executed, last_input, feedback_branch, task_execs, ended, simple_runs>>
vars == <<agent_vars, engine_vars, hist_vars>>

VARIABLES
    \* --- a pure function under study: its call and what it returned
    call,                   \* [fn |-> name, ...arguments], or NoCall
    returned,               \* the value returned, or NotReturned
    \* --- the plan/review/research/evaluate variant (src/agents, src/api)
    legacy_state,           \* its AgentState, fields named as in the source
    legacy_next,            \* the node its graph runs next ("END" when done)
    legacy_running,         \* "none" | "chat" | "approve"
    legacy_sessions,        \* src/api/main.py sessions: session_id -> entry
    legacy_response,        \* the last ChatResponse / HTTP error returned
    legacy_hist,            \* observation only: what the run has done
    \* --- the session store of routes.py seen across thread_ids
    sessions,               \* thread_id -> session entry, or NoSession
    requests,               \* thread_id -> the request being handled for it
    replies,                \* thread_id -> the last response to that thread
    served,                 \* thread_id of the request handled last
    \* --- the user_profile collection of core/memory.py across conversations
    profile_collection,     \* document id -> the JSON document, or NoDocument
    conversations,          \* thread_id -> the conversation's user and profile
    saved_profiles,         \* observation only: user_id -> the dict saved last
    \* --- one thread_id of the shared active_sessions, served by the UI
    \* --- workers and by the API
    ui_session,             \* thread_id in active_sessions
    ui_checkpoint,          \* the node the thread's checkpoint runs next
    ui_workers,             \* worker -> where its process_message call is
    api_reply,              \* the last answer of /chat/approve
    pipeline_runs,          \* observation only: resumed runs of the pipeline
    \* --- the single-file variant (src/graph.py served by main.py)
    single_state,           \* its AgentState, fields named as in the source
    single_next,            \* the node its graph runs next ("END" when done)
    single_running,         \* "none" | "approve" | "resume"
    single_session,         \* thread_id in main.py's active_sessions
    single_response,        \* what the last call returned
    \* --- the memory files of the plan/review/research/evaluate variant
    memory_files,           \* user_id of the file name -> the stored profile
    memory_sessions         \* session_id -> what its requests saved and loaded

pure_vars == <<call, returned>>
legacy_vars ==
    <<legacy_state, legacy_next, legacy_running, legacy_sessions,
      legacy_response, legacy_hist>>
session_vars == <<sessions, requests, replies, served>>
\* What a step of the workflow engine leaves alone
profile_vars == <<profile_collection, conversations, saved_profiles>>
ui_vars ==
    <<ui_session, ui_checkpoint, ui_workers, api_reply, pipeline_runs>>
single_vars ==
    <<single_state, single_next, single_running, single_session,
      single_response>>
memory_vars == <<memory_files, memory_sessions>>
rest_vars == <<ui_vars, single_vars, memory_vars>>
other_vars == <<pure_vars, legacy_vars, session_vars, profile_vars, rest_vars>>

\* ------------------------------------------------- idle values of the rest
NoCall == [fn |-> "none"]
NotReturned == [done |-> FALSE]
Returned(v) == [done |-> TRUE, value |-> v]
\* No pure function is being studied
PureIdle == call = NoCall /\ returned = NotReturned

\* src/agents/state.py MAX_RETRIES = 2
MAX_RETRIES == 2
\* src/api/main.py lines 137-150: initial_state of /chat.  evaluation_results
\* is kept as the sequence, by sub-task, of the top candidate's final_score in
\* hundredths, NoCandidates for a sub-task whose candidate list is empty.
LegacyInitialState ==
    [plan |-> <<>>, plan_approved |-> FALSE, user_feedback |-> None,
     evaluation_results |-> <<>>, final_response |-> "", retry_count |-> 0]
\* The session_ids clients send to src/api/main.py
LegacySessionIds == {"s1", "s2"}
\* A session_id that is not a key of sessions
NoLegacySession ==
    [present |-> FALSE, plan_approved |-> FALSE, plan_count |-> 0,
     final_response_available |-> FALSE]
NoLegacyResponse ==
    [op |-> "none", session_id |-> None, status |-> "none", response |-> None,
     state |-> NoLegacySession]
NoLegacyHist ==
    [replans |-> 0, after_retry |-> FALSE, tie_below |-> FALSE,
     planner_mode |-> "none", approved |-> FALSE]
\* The variant has served no request
LegacyIdle ==
    /\ legacy_state = LegacyInitialState
    /\ legacy_next = [node |-> "none", fresh |-> FALSE]
    /\ legacy_running = "none"
    /\ legacy_sessions = [s \in LegacySessionIds |-> NoLegacySession]
    /\ legacy_response = NoLegacyResponse
    /\ legacy_hist = NoLegacyHist

\* The thread_ids of concurrent clients
ThreadIds == {"t1", "t2"}
\* A graph with its own checkpointer, by what the handlers read from it
NoGraph ==
    [is_complex_task |-> FALSE, sub_tasks |-> <<>>, final_guide |-> None,
     next_node |-> "none"]
NoSession == [present |-> FALSE, graph |-> NoGraph]
NoRequest == [op |-> "none", graph |-> NoGraph]
NoReply == [status |-> "none", plan |-> <<>>, final_guide |-> None]
\* routes.py line 20: active_sessions = {}
SessionsIdle ==
    /\ sessions = [t \in ThreadIds |-> NoSession]
    /\ requests = [t \in ThreadIds |-> NoRequest]
    /\ replies = [t \in ThreadIds |-> NoReply]
    /\ served = "none"

ProfileKeys == {"interests", "skill_level"}
\* A JSON value of a profile: a list of items or a string, both kept as a
\* sequence of item / character codes; AbsentValue for a key the dict lacks
ListValue(items) == [t |-> "list", v |-> items]
StrValue(chars) == [t |-> "str", v |-> chars]
AbsentValue == [t |-> "absent", v |-> <<>>]
\* The dict without keys
EmptyDict == [k \in ProfileKeys |-> AbsentValue]

\* The user_ids of the requests
UserIds == {"u1", "u2"}
\* The ids of the documents of the collection: profile_{user_id}
DocumentIds == {<<"profile", u>> : u \in UserIds}
\* get() of an id the collection does not hold returns no document
NoDocument == <<[key |-> "no document", value |-> AbsentValue]>>
\* load_user_profile returned None
NoProfile == [none |-> TRUE, dict |-> EmptyDict]
NothingSaved == [done |-> FALSE, dict |-> EmptyDict]
NoConversation ==
    [node |-> "none", user_id |-> "none", user_profile |-> NoProfile,
     written |-> NothingSaved]
\* core/memory.py lines 44-47: the collection as get_or_create_collection
\* returns it on an empty store
ProfilesIdle ==
    /\ profile_collection = [d \in DocumentIds |-> NoDocument]
    /\ conversations = [t \in ThreadIds |-> NoConversation]
    /\ saved_profiles = [u \in UserIds |-> NothingSaved]

\* The worker threads that run process_message for the UI
Workers == {"w1", "w2"}
NoWorker == [pc |-> "idle", reply |-> "none"]
\* routes.py lines 20 and 182: the UI and the API share active_sessions;
\* no conversation has started
UiIdle ==
    /\ ui_session = FALSE
    /\ ui_checkpoint = "none"
    /\ ui_workers = [w \in Workers |-> NoWorker]
    /\ api_reply = "none"
    /\ pipeline_runs = 0

\* src/graph.py lines 170-191: create_initial_state, by the fields the loop
\* after the approval reads and writes; sub_tasks is kept by its length
SingleInitialState ==
    [is_complex_task |-> FALSE, sub_tasks |-> 0, current_task_idx |-> 0,
     tool_call_count |-> 0, tool_result |-> None, final_guide |-> None,
     reflected |-> FALSE]
NoSingleResponse ==
    [op |-> "none", intent |-> "none", status |-> "none", final_guide |-> None]
\* main.py line 93: no session, no run
SingleIdle ==
    /\ single_state = SingleInitialState
    /\ single_next = [node |-> "none", fresh |-> FALSE]
    /\ single_running = "none"
    /\ single_session = FALSE
    /\ single_response = NoSingleResponse

\* The user_id in the name of a memory file, and the session_id of a request
MemoryUserIds == {"default", "s1", "s2"}
NoFile == "no file"
NoMemorySession ==
    [stage |-> "none", load_key |-> None, loaded |-> None,
     save_key |-> None, saved |-> None]
\* No memory file is written and no request has been made
MemoryIdle ==
    /\ memory_files = [u \in MemoryUserIds |-> NoFile]
    /\ memory_sessions = [s \in MemoryUserIds |-> NoMemorySession]

RestIdle == UiIdle /\ SingleIdle /\ MemoryIdle

\* No step of the simple path has run
NoSimpleRuns == [llm |-> 0, executor |-> 0, answers |-> 0]

\* ------------------------------------------------------------- helpers
EmptyMap == [k \in {} |-> None]

\* dict[key] = value
Put(m, k, v) == [x \in DOMAIN m \cup {k} |-> IF x = k THEN v ELSE m[x]]

\* Sequences over S of length 0..n
SeqsUpTo(S, n) == UNION {[1..k -> S] : k \in 0..n}

RECURSIVE SumExecs(_)
SumExecs(s) == IF s = <<>> THEN 0 ELSE Head(s).execs + SumExecs(Tail(s))

\* Tool executions since the plan was approved
TotalExecs == SumExecs(ended) + task_execs

NoResponse == [op |-> "none", status |-> "none", message |-> None,
               final_guide |-> None, plan |-> AbsentPlan]
NoRevision == [kind |-> "none", tasks |-> <<>>]
NoInput == [node |-> "none", out |-> "none", text |-> "none", rev |-> NoRevision]

\* -------------------------------------------------- reasoning outputs
\* The classifier's reply, by what extract_json + json.loads + .get make of it
RouterOutputs ==
    {"not_json", "not_object", "no_field", "is_complex_true",
     "is_complex_false", "is_complex_null"}
MalformedRouterOutputs == {"not_json", "not_object", "no_field"}

\* The planner's reply: kind, and the descriptions of its subtasks
PlannerOutputs ==
    [kind : {"not_json", "not_object", "bad_subtasks", "no_subtasks"},
     tasks : {<<>>}]
    \cup [kind : {"ok"}, tasks : SeqsUpTo({"p"}, MaxPlanLen)]
MalformedPlannerKinds == {"not_json", "not_object", "bad_subtasks", "no_subtasks"}

\* The intent analysis reply
IntentOutputs ==
    {"not_json", "not_object", "no_intent", "approve", "modify", "cancel",
     "other_intent"}
UnparsedIntentOutputs == {"not_json", "not_object", "no_intent", "other_intent"}

\* The plan revision reply
RevisionOutputs ==
    [kind : {"not_json", "not_list"}, tasks : {<<>>}]
    \cup [kind : {"list"}, tasks : SeqsUpTo({"r"}, MaxPlanLen)]

\* ApproveRequest.action (schemas.py): a free string, default "approve"
RequestActions == {"approve", "modify", "cancel"}

\* ---------------------------------------------------- pure functions
\* router.py lines 43-59: extract_json, json.loads, result.get("is_complex",
\* True); any exception gives True.  A null value is kept and is falsy at
\* every use (route_after_llm_router, start_chat).
ParseIsComplex_DefaultSimple(out) == out = "is_complex_true"
ParseIsComplex(out) ==
    CASE out = "not_json"         -> TRUE    \* json.loads raises
      [] out = "not_object"       -> TRUE    \* .get raises AttributeError
      [] out = "no_field"         -> TRUE    \* the default of .get
      [] out = "is_complex_true"  -> TRUE
      [] out = "is_complex_false" -> FALSE
      [] out = "is_complex_null"  -> FALSE

\* routing.py lines 7-12
route_after_llm_router(complex) ==
    IF complex THEN "planning_node" ELSE "simple_llm_node"

\* routing.py lines 15-23
route_after_simple_llm(tr) ==
    IF tr # None THEN "simple_executor" ELSE "reflection_node"

\* routing.py lines 26-42
route_after_recommend_Stuck(tr, idx, tasks) ==
    IF tr # None THEN "tool_executor" ELSE "recommend_tool_node"
route_after_recommend(tr, idx, tasks) ==
    IF tr # None THEN "tool_executor"
    ELSE IF idx < Len(tasks) THEN "recommend_tool_node"
    ELSE "guide_generation_node"

\* planning.py lines 38-57: the try block and its except
ParsePlan(out, query) ==
    CASE out.kind = "not_json"     -> <<query>>   \* json.loads raises
      [] out.kind = "not_object"   -> <<query>>   \* plan_data.get raises
      [] out.kind = "bad_subtasks" -> <<query>>   \* iteration or t.get raises
      [] out.kind = "no_subtasks"  -> <<>>        \* .get("subtasks", [])
      [] out.kind = "ok"           -> out.tasks

\* hitl.py lines 32-43: the action analyze_user_intent returns
AnalyzeUserIntent_DefaultCancel(out) ==
    IF out \in {"approve", "modify"} THEN out ELSE "cancel"
AnalyzeUserIntent(out) ==
    CASE out = "not_json"     -> "approve"   \* except branch
      [] out = "not_object"   -> "approve"   \* .get raises, except branch
      [] out = "no_intent"    -> "approve"   \* result.get("intent", "approve")
      [] out = "other_intent" -> "other_intent"
      [] OTHER                -> out

\* hitl.py lines 62-77: modify_subtasks
ModifySubtasks_Keep(current, rev) == current
ModifySubtasks_Drop(current, rev) ==
    IF rev.kind = "list" THEN rev.tasks ELSE <<>>
ModifySubtasks(current, rev) ==
    CASE rev.kind = "not_json" -> current    \* except branch
      [] rev.kind = "not_list" -> current    \* isinstance(.., list) fails
      [] rev.kind = "list"     -> rev.tasks

\* routes.py lines 131-136: the text handed to handle_human_feedback
UserResponseText(action, has_feedback) ==
    IF action = "cancel" THEN "cancel_text"
    ELSE IF action = "modify" /\ has_feedback THEN "feedback_text"
    ELSE "approve_text"

\* recommend.py line 42: tool_call_count >= MAX_TOOL_CALLS_PER_TASK
AtCallLimit_Never(count) == FALSE
AtCallLimit_OffByOne(count) == count > MAX_TOOL_CALLS_PER_TASK
AtCallLimit(count) == count >= MAX_TOOL_CALLS_PER_TASK

\* recommend.py line 34: current_idx >= len(sub_tasks)
AllTasksDone_Never(idx, tasks) == FALSE
AllTasksDone(idx, tasks) == idx >= Len(tasks)

\* executor.py lines 44-77: the tool's observation marks the sub-task done
\* exactly for retrieve_docs with should_fallback false
TaskCompleted(tool, should_fallback) ==
    tool = "retrieve_docs" /\ ~should_fallback

\* graph.stream stops at END, and before a node of interrupt_before unless
\* the stream has just been resumed at that node
ShouldInterrupt_Never == FALSE
ShouldInterrupt_AlsoRecommend ==
    next_node \in {"human_approval_node", "recommend_tool_node"}
    /\ ~fresh_resume
ShouldInterrupt == next_node \in InterruptBefore /\ ~fresh_resume

StreamStopped == next_node = "END" \/ ShouldInterrupt

\* A node may run: a handler's stream loop is executing and has not stopped
CanRun(node) ==
    /\ running \in {"start", "approve"}
    /\ next_node = node
    /\ ~StreamStopped

\* ------------------------------------------------ human feedback (hitl.py)
USER_CANCEL == "user_cancel"          \* hitl.py line 104: error text
CANCEL_TEXT == "cancelled_text"       \* hitl.py line 103: final_guide text
\* hitl.py lines 80-122: the state update handle_human_feedback returns,
\* a dict holding only the fields it sets
HandleHumanFeedback(tasks, intent_out, rev) ==
    LET action == AnalyzeUserIntent(intent_out) IN
    IF action = "cancel" THEN
        [final_guide |-> CANCEL_TEXT, error |-> USER_CANCEL]
    ELSE IF action = "modify" THEN
        [sub_tasks |-> ModifySubtasks(tasks, rev), user_feedback |-> "feedback",
         current_task_idx |-> 0, tool_recommendations |-> EmptyMap]
    ELSE
        [user_feedback |-> None]

\* routes.py line 144: updates.get("error") == "사용자 취소"
IsUserCancel_Never(updates) == FALSE
IsUserCancel(updates) ==
    "error" \in DOMAIN updates /\ updates.error = USER_CANCEL

\* graph.update_state(config, updates): a field the update carries replaces
\* the state's field, the others stay
Updated(updates, field, old) ==
    IF field \in DOMAIN updates THEN updates[field] ELSE old

\* ------------------------------------------------------------------ Init
\* graph.py lines 28-49: create_initial_state; no request has been served
WorkflowInit ==
    /\ is_complex_task = FALSE
    /\ sub_tasks = <<>>
    /\ tool_recommendations = EmptyMap
    /\ user_feedback = None
    /\ final_guide = None
    /\ final_answer = None
    /\ current_task_idx = 0
    /\ tool_call_count = 0
    /\ simple_tool_count = 0
    /\ tool_result = None
    /\ error = None
    /\ next_node = "none"
    /\ fresh_resume = FALSE
    /\ running = "none"
    /\ active_sessions = {}
    /\ response = NoResponse
    /\ executed = {}
    /\ last_input = NoInput
    /\ feedback_branch = "none"
    /\ task_execs = 0
    /\ simple_runs = NoSimpleRuns
    /\ ended = <<>>

\* The workflow engine starts idle; nothing else is running
Init ==
    /\ WorkflowInit /\ PureIdle /\ LegacyIdle /\ SessionsIdle
    /\ ProfilesIdle /\ RestIdle

\* ------------------------------------------------------------ API: start
\* routes.py lines 67-78: start_chat builds a new graph and initial state and
\* starts graph.stream
StartChat ==
    /\ running = "none"
    /\ is_complex_task' = FALSE
    /\ sub_tasks' = <<>>
    /\ tool_recommendations' = EmptyMap
    /\ user_feedback' = None
    /\ final_guide' = None
    /\ final_answer' = None
    /\ current_task_idx' = 0
    /\ tool_call_count' = 0
    /\ simple_tool_count' = 0
    /\ tool_result' = None
    /\ error' = None
    /\ next_node' = "llm_router"
    /\ fresh_resume' = FALSE
    /\ running' = "start"
    /\ response' = NoResponse
    /\ executed' = {}
    /\ last_input' = NoInput
    /\ feedback_branch' = "none"
    /\ task_execs' = 0
    /\ ended' = <<>>
    /\ simple_runs' = NoSimpleRuns
    /\ UNCHANGED active_sessions
    /\ UNCHANGED other_vars

\* routes.py lines 82-112: the stream has stopped; answer the caller
StartChatReturn ==
    /\ running = "start"
    /\ StreamStopped
    /\ running' = "none"
    /\ IF ~is_complex_task /\ final_guide # None
       THEN /\ response' = [op |-> "start", status |-> "completed",
                            message |-> "answer_done",
                            final_guide |-> final_guide, plan |-> AbsentPlan]
            /\ UNCHANGED active_sessions
       ELSE /\ active_sessions' = active_sessions \cup {ThreadId}
            /\ response' = [op |-> "start", status |-> "pending_approval",
                            message |-> "plan_ready",
                            final_guide |-> None, plan |-> sub_tasks]
    /\ UNCHANGED <<agent_vars, next_node, fresh_resume, hist_vars>>
    /\ UNCHANGED other_vars

\* ---------------------------------------------------------- graph nodes
\* Every node action records itself in `executed`, and ends the first step
\* of a resumed stream.
Ran(node) ==
    /\ executed' = executed \cup {node}
    /\ fresh_resume' = FALSE

\* The step consumed reasoning output `out` / consumed none worth recording
Consumed(node, out) ==
    last_input' = [node |-> node, out |-> out, text |-> "none", rev |-> NoRevision]
NothingConsumed == last_input' = NoInput

\* router.py lines 16-59: llm_router_node, then route_after_llm_router
LlmRouter ==
    /\ CanRun("llm_router")
    /\ \E out \in RouterOutputs :
         /\ is_complex_task' = ParseIsComplex(out)
         /\ Consumed("llm_router", out)
    /\ next_node' = route_after_llm_router(is_complex_task')
    /\ Ran("llm_router")
    /\ UNCHANGED <<sub_tasks, tool_recommendations, user_feedback, final_guide,
                   final_answer, current_task_idx, tool_call_count,
                   simple_tool_count, tool_result, error>>
    /\ UNCHANGED <<running, active_sessions, response>>
    /\ UNCHANGED <<feedback_branch, task_execs, ended, simple_runs>>
    /\ UNCHANGED other_vars

\* planning.py lines 16-78: planning_node, then the edge to human_approval_node
PlanningNode ==
    /\ CanRun("planning_node")
    /\ \E out \in PlannerOutputs :
         /\ sub_tasks' = ParsePlan(out, UserQuery)
         /\ Consumed("planning_node", out.kind)
    /\ tool_recommendations' = EmptyMap
    /\ current_task_idx' = 0
    /\ tool_call_count' = 0
    /\ next_node' = "human_approval_node"
    /\ Ran("planning_node")
    /\ UNCHANGED <<is_complex_task, user_feedback, final_guide, final_answer,
                   simple_tool_count, tool_result, error>>
    /\ UNCHANGED <<running, active_sessions, response>>
    /\ UNCHANGED <<feedback_branch, task_execs, ended, simple_runs>>
    /\ UNCHANGED other_vars

\* approval.py lines 9-20: human_approval_node returns {}; edge to recommend
HumanApprovalNode ==
    /\ CanRun("human_approval_node")
    /\ next_node' = "recommend_tool_node"
    /\ Ran("human_approval_node")
    /\ UNCHANGED agent_vars
    /\ UNCHANGED <<running, active_sessions, response>>
    /\ NothingConsumed
    /\ UNCHANGED <<feedback_branch, task_execs, ended, simple_runs>>
    /\ UNCHANGED other_vars

\* What the reasoning call of the recommendation loop answers: a tool call
\* for one of the tool names, or a final text
RecommendReplies == RequestedTools \cup {"final_text"}

\* recommend.py lines 44 and 91: task_id = task_{current_idx + 1}, kept as
\* the number of the sub-task
TaskId_Off(current_idx) == current_idx + 2
TaskId(current_idx) == current_idx + 1

\* recommend.py lines 49-50 and 98-99, executor.py lines 109-110: the index
\* and the counter a step that ends the sub-task returns
NextTask_KeepCount(current_idx, count) ==
    [current_task_idx |-> current_idx + 1, tool_call_count |-> count]
NextTask(current_idx, count) ==
    [current_task_idx |-> current_idx + 1, tool_call_count |-> 0]

\* The sub-task at current_task_idx ends: one record of how it went
EndTask(llm_final, sufficient) ==
    /\ ended' = Append(ended, [execs |-> task_execs + (IF sufficient THEN 1 ELSE 0),
                               llm_final |-> llm_final,
                               sufficient |-> sufficient])
    /\ task_execs' = 0

\* recommend.py lines 18-101: recommend_tool_node, then route_after_recommend
RecommendToolNode ==
    /\ CanRun("recommend_tool_node")
    /\ IF AllTasksDone(current_task_idx, sub_tasks) THEN
           \* lines 33-36
           /\ tool_result' = None
           /\ UNCHANGED <<tool_recommendations, current_task_idx,
                          tool_call_count, task_execs, ended>>
       ELSE IF AtCallLimit(tool_call_count) THEN
           \* lines 41-51
           /\ tool_result' = None
           /\ tool_recommendations' =
                  Put(tool_recommendations, TaskId(current_task_idx), FALLBACK_TEXT)
           /\ current_task_idx' =
                NextTask(current_task_idx, tool_call_count).current_task_idx
           /\ tool_call_count' =
                NextTask(current_task_idx, tool_call_count).tool_call_count
           /\ EndTask(FALSE, FALSE)
       ELSE
           \E reply \in RecommendReplies :
             IF reply # "final_text" THEN
                 \* lines 75-88
                 /\ tool_result' = reply
                 /\ tool_call_count' = tool_call_count + 1
                 /\ UNCHANGED <<tool_recommendations, current_task_idx,
                                task_execs, ended>>
             ELSE
                 \* lines 89-101
                 /\ tool_result' = None
                 /\ tool_recommendations' =
                        Put(tool_recommendations, TaskId(current_task_idx), LLM_CONTENT)
                 /\ current_task_idx' =
                      NextTask(current_task_idx, tool_call_count).current_task_idx
                 /\ tool_call_count' =
                      NextTask(current_task_idx, tool_call_count).tool_call_count
                 /\ EndTask(TRUE, FALSE)
    /\ next_node' = route_after_recommend(tool_result', current_task_idx', sub_tasks)
    /\ Ran("recommend_tool_node")
    /\ UNCHANGED <<is_complex_task, sub_tasks, user_feedback, final_guide,
                   final_answer, simple_tool_count, error>>
    /\ UNCHANGED <<running, active_sessions, response>>
    /\ NothingConsumed
    /\ UNCHANGED <<feedback_branch, simple_runs>>
    /\ UNCHANGED other_vars

\* executor.py lines 13-121: tool_executor_node, then the edge back to
\* recommend_tool_node.  registry.py execute_tool raises for an unknown name;
\* a registered tool may raise too.
ToolExecutor ==
    /\ CanRun("tool_executor")
    /\ tool_result # None
    /\ \E raises \in BOOLEAN, should_fallback \in BOOLEAN :
         IF tool_result \notin ToolsMap \/ raises THEN
             \* lines 115-121: the except branch
             /\ error' = "tool_error"
             /\ task_execs' = task_execs + 1
             /\ UNCHANGED <<current_task_idx, tool_call_count, ended>>
         ELSE IF TaskCompleted(tool_result, should_fallback) THEN
             \* lines 106-111
             /\ current_task_idx' =
                  NextTask(current_task_idx, tool_call_count).current_task_idx
             /\ tool_call_count' =
                  NextTask(current_task_idx, tool_call_count).tool_call_count
             /\ EndTask(FALSE, TRUE)
             /\ UNCHANGED error
         ELSE
             /\ task_execs' = task_execs + 1
             /\ UNCHANGED <<current_task_idx, tool_call_count, error, ended>>
    /\ tool_result' = None
    /\ next_node' = "recommend_tool_node"
    /\ Ran("tool_executor")
    /\ UNCHANGED <<is_complex_task, sub_tasks, tool_recommendations,
                   user_feedback, final_guide, final_answer, simple_tool_count>>
    /\ UNCHANGED <<running, active_sessions, response>>
    /\ NothingConsumed
    /\ UNCHANGED <<feedback_branch, simple_runs>>
    /\ UNCHANGED other_vars

\* guide.py lines 20-97: guide_generation_node sets final_guide from the
\* reasoning call (either mode); edge to reflection_node
GuideGenerationNode ==
    /\ CanRun("guide_generation_node")
    /\ final_guide' = "guide_text"
    /\ next_node' = "reflection_node"
    /\ Ran("guide_generation_node")
    /\ UNCHANGED <<is_complex_task, sub_tasks, tool_recommendations,
                   user_feedback, final_answer, current_task_idx,
                   tool_call_count, simple_tool_count, tool_result, error>>
    /\ UNCHANGED <<running, active_sessions, response>>
    /\ NothingConsumed
    /\ UNCHANGED <<feedback_branch, task_execs, ended, simple_runs>>
    /\ UNCHANGED other_vars

\* reflection.py lines 40-70: what happens inside the try block
ReflectionOutcomes == {"saved", "llm_error", "parse_error", "save_failed"}

\* reflection.py lines 16-72: reflection_node returns {} whatever happens
\* inside its try block; edge to END
ReflectionNode ==
    /\ CanRun("reflection_node")
    /\ next_node' = "END"
    /\ Ran("reflection_node")
    /\ UNCHANGED agent_vars
    /\ UNCHANGED <<running, active_sessions, response>>
    /\ \E outcome \in ReflectionOutcomes : Consumed("reflection_node", outcome)
    /\ UNCHANGED <<feedback_branch, task_execs, ended, simple_runs>>
    /\ UNCHANGED other_vars

\* simple_react.py line 59: simple_tool_count >= MAX_TOOL_CALLS_PER_TASK
SimpleAtCallLimit_Never(count) == FALSE
SimpleAtCallLimit(count) == count >= MAX_TOOL_CALLS_PER_TASK

\* simple_react.py lines 42-167: simple_llm_node, then route_after_simple_llm
SimpleLlmNode ==
    /\ CanRun("simple_llm_node")
    /\ IF SimpleAtCallLimit(simple_tool_count) THEN
           \* lines 58-75
           /\ tool_result' = None
           /\ final_answer' = LLM_CONTENT
           /\ UNCHANGED simple_tool_count
       ELSE
           \E reply \in RecommendReplies :
             IF reply # "final_text" THEN
                 \* lines 145-158
                 /\ tool_result' = reply
                 /\ simple_tool_count' = simple_tool_count + 1
                 /\ UNCHANGED final_answer
             ELSE
                 \* lines 159-167
                 /\ tool_result' = None
                 /\ final_answer' = LLM_CONTENT
                 /\ UNCHANGED simple_tool_count
    /\ next_node' = route_after_simple_llm(tool_result')
    /\ Ran("simple_llm_node")
    /\ UNCHANGED <<is_complex_task, sub_tasks, tool_recommendations,
                   user_feedback, final_guide, current_task_idx,
                   tool_call_count, error>>
    /\ UNCHANGED <<running, active_sessions, response>>
    /\ NothingConsumed
    /\ simple_runs' =
         [simple_runs EXCEPT
            !.llm = @ + 1,
            !.answers = @ + (IF final_answer' # final_answer THEN 1 ELSE 0)]
    /\ UNCHANGED <<feedback_branch, task_execs, ended>>
    /\ UNCHANGED other_vars

\* simple_react.py lines 78-84: the tools simple_llm_node binds to the
\* reasoning service
SimpleBoundTools ==
    {"get_current_time", "google_search_tool", "calculate_math",
     "calculate_subscription_cost", "check_tool_freshness"}

\* simple_executor.py lines 46-68: what the ToolMessage of the step holds for
\* a call of tool_name
SimpleObservation(tool_name, raises) ==
    IF tool_name \notin SIMPLE_TOOLS_MAP THEN "unknown_tool"
    ELSE IF raises THEN "tool_error"
    ELSE "tool_output"

\* simple_executor.py lines 23-68: simple_tool_executor, then the edge back
\* to simple_llm_node.  A name missing from SIMPLE_TOOLS_MAP gives an
\* observation, a tool that raises sets error.
SimpleExecutor ==
    /\ CanRun("simple_executor")
    /\ tool_result # None
    /\ \E raises \in BOOLEAN :
         IF SimpleObservation(tool_result, raises) = "tool_error"
         THEN error' = "tool_error"
         ELSE UNCHANGED error
    /\ tool_result' = None
    /\ next_node' = "simple_llm_node"
    /\ Ran("simple_executor")
    /\ UNCHANGED <<is_complex_task, sub_tasks, tool_recommendations,
                   user_feedback, final_guide, final_answer, current_task_idx,
                   tool_call_count, simple_tool_count>>
    /\ UNCHANGED <<running, active_sessions, response>>
    /\ NothingConsumed
    /\ simple_runs' = [simple_runs EXCEPT !.executor = @ + 1]
    /\ UNCHANGED <<feedback_branch, task_execs, ended>>
    /\ UNCHANGED other_vars

\* ---------------------------------------------------------- API: approve
\* routes.py lines 122-123: unknown thread_id, HTTP 404
ApproveNotFound ==
    /\ running = "none"
    /\ ThreadId \notin active_sessions
    /\ response' = [op |-> "approve", status |-> "not_found",
                    message |-> "session_not_found",
                    final_guide |-> None, plan |-> AbsentPlan]
    /\ UNCHANGED <<agent_vars, next_node, fresh_resume, running,
                   active_sessions, hist_vars>>
    /\ UNCHANGED other_vars

\* routes.py lines 125-160 (graph.py lines 200-217 do the same without the
\* session store): interpret the feedback; on cancel drop the session and
\* answer, otherwise update the checkpointed state and resume the stream
ApprovePlan ==
    /\ running = "none"
    /\ ThreadId \in active_sessions
    /\ \E action \in RequestActions, has_feedback \in BOOLEAN,
          intent_out \in IntentOutputs, rev \in RevisionOutputs :
         LET text == UserResponseText(action, has_feedback)
             updates == HandleHumanFeedback(sub_tasks, intent_out, rev)
             revised == AnalyzeUserIntent(intent_out) = "modify"
         IN
         /\ last_input' =
                [node |-> "approve_plan", out |-> intent_out, text |-> text,
                 rev |-> IF revised THEN rev ELSE NoRevision]
         /\ feedback_branch' =
                IF AnalyzeUserIntent(intent_out) \in {"cancel", "modify"}
                THEN AnalyzeUserIntent(intent_out) ELSE "approve"
         /\ IF IsUserCancel(updates) THEN
                \* lines 143-153
                /\ active_sessions' = active_sessions \ {ThreadId}
                /\ response' = [op |-> "approve", status |-> "cancelled",
                                message |-> "cancelled_message",
                                final_guide |-> None, plan |-> AbsentPlan]
                /\ UNCHANGED <<agent_vars, next_node, fresh_resume, running>>
            ELSE
                \* lines 155-158
                /\ sub_tasks' = Updated(updates, "sub_tasks", sub_tasks)
                /\ user_feedback' = Updated(updates, "user_feedback", user_feedback)
                /\ current_task_idx' =
                       Updated(updates, "current_task_idx", current_task_idx)
                /\ tool_recommendations' =
                       Updated(updates, "tool_recommendations", tool_recommendations)
                /\ final_guide' = Updated(updates, "final_guide", final_guide)
                /\ error' = Updated(updates, "error", error)
                /\ running' = "approve"
                /\ fresh_resume' = TRUE
                /\ response' = NoResponse
                /\ UNCHANGED <<is_complex_task, final_answer, tool_call_count,
                               simple_tool_count, tool_result, next_node,
                               active_sessions>>
    /\ UNCHANGED <<executed, task_execs, ended, simple_runs>>
    /\ UNCHANGED other_vars

\* routes.py lines 162-176: the resumed stream has stopped; drop the session
\* and answer completed
ApproveReturn ==
    /\ running = "approve"
    /\ StreamStopped
    /\ running' = "none"
    /\ active_sessions' = active_sessions \ {ThreadId}
    /\ response' = [op |-> "approve", status |-> "completed",
                    message |-> "work_done",
                    final_guide |-> final_guide, plan |-> AbsentPlan]
    /\ UNCHANGED <<agent_vars, next_node, fresh_resume, hist_vars>>
    /\ UNCHANGED other_vars

\* ------------------------------------------------------- specifications
Next ==
    \/ StartChat
    \/ LlmRouter
    \/ PlanningNode
    \/ SimpleLlmNode
    \/ SimpleExecutor
    \/ StartChatReturn
    \/ ApproveNotFound
    \/ ApprovePlan
    \/ HumanApprovalNode
    \/ RecommendToolNode
    \/ ToolExecutor
    \/ GuideGenerationNode
    \/ ReflectionNode
    \/ ApproveReturn

Spec == Init /\ [][Next]_vars

\* A step of graph.stream and the handler's return run synchronously inside
\* one request: once a handler has started they are taken.  Requests
\* themselves (StartChat, ApprovePlan) come from outside and are not forced.
EngineStep ==
    \/ LlmRouter
    \/ PlanningNode
    \/ SimpleLlmNode
    \/ SimpleExecutor
    \/ StartChatReturn
    \/ HumanApprovalNode
    \/ RecommendToolNode
    \/ ToolExecutor
    \/ GuideGenerationNode
    \/ ReflectionNode
    \/ ApproveReturn

FairSpec == Spec /\ WF_vars(EngineStep)

\* ================================================= reflection profile merge
\* Bound: longest list a profile field or an extracted preference holds
MaxListLen == 2

ProfileValues ==
    {ListValue(l) : l \in SeqsUpTo({1, 2}, MaxListLen)}
    \cup {StrValue(<<>>), StrValue(<<7>>)}
    \cup {AbsentValue}
\* A profile dict; the dict without keys stands for None as well (both falsy)
Profiles == [ProfileKeys -> ProfileValues]

\* Python truthiness of a dict and of a value
DictTruthy(d) == \E k \in ProfileKeys : d[k] # AbsentValue
ValueTruthy(val) == val.v # <<>>

\* The items of a list without repetition, in ascending order: list(set(..))
\* yields them in an order the build chooses, taken here as ascending
RECURSIVE SortedItems(_)
SortedItems(S) ==
    IF S = {} THEN <<>>
    ELSE LET least == CHOOSE x \in S : \A y \in S : x <= y
         IN <<least>> \o SortedItems(S \ {least})
Range(q) == {q[i] : i \in DOMAIN q}
ListOfSet(items) == SortedItems(Range(items))

\* reflection.py lines 52-60: new_preferences merged into user_profile
MergeProfile(user_profile, new_preferences) ==
    IF ~DictTruthy(user_profile) THEN new_preferences
    ELSE [k \in ProfileKeys |->
            IF new_preferences[k] = AbsentValue THEN user_profile[k]
            ELSE IF new_preferences[k].t = "list" /\ user_profile[k].t = "list"
            THEN ListValue(ListOfSet(user_profile[k].v \o new_preferences[k].v))
            ELSE IF ValueTruthy(new_preferences[k]) THEN new_preferences[k]
            ELSE user_profile[k]]

\* Two stored profiles are the same when they agree up to the order of the
\* items of their lists
RECURSIVE Occurrences(_, _)
Occurrences(q, x) ==
    IF q = <<>> THEN 0
    ELSE (IF Head(q) = x THEN 1 ELSE 0) + Occurrences(Tail(q), x)
SameValue(a, b) ==
    /\ a.t = b.t
    /\ IF a.t = "list"
       THEN \A x \in Range(a.v) \cup Range(b.v) :
              Occurrences(a.v, x) = Occurrences(b.v, x)
       ELSE a.v = b.v
SameProfile(p, q) == \A k \in ProfileKeys : SameValue(p[k], q[k])

\* The profile loaded by the router and the preferences reflection extracted
MergeCalls ==
    [fn : {"merge"}, user_profile : Profiles, new_preferences : Profiles]

MergeInit ==
    /\ call \in MergeCalls
    /\ returned = NotReturned
    /\ WorkflowInit /\ LegacyIdle /\ SessionsIdle /\ ProfilesIdle /\ RestIdle

\* Reflection at the end of one conversation saves `once`; the next
\* conversation of the user loads it and, extracting the same preferences,
\* saves `twice`
ApplyMerge ==
    /\ call.fn = "merge"
    /\ ~returned.done
    /\ LET once == MergeProfile(call.user_profile, call.new_preferences)
       IN returned' =
            Returned([once |-> once,
                      twice |-> MergeProfile(once, call.new_preferences)])
    /\ UNCHANGED <<call, vars, legacy_vars, session_vars, profile_vars,
                   rest_vars>>

MergeNext == ApplyMerge
MergeSpec == MergeInit /\ [][MergeNext]_pure_vars

\* ============================ the stored profile across conversations
\* The order in which a dict holds its keys
KeyOrder == <<"interests", "skill_level">>

\* core/memory.py line 261: json.dumps(preferences), the members of the
\* dict in its order
RECURSIVE DumpMembers(_, _)
DumpMembers(d, i) ==
    IF i > Len(KeyOrder) THEN <<>>
    ELSE (IF d[KeyOrder[i]] = AbsentValue THEN <<>>
          ELSE <<[key |-> KeyOrder[i], value |-> d[KeyOrder[i]]]>>)
         \o DumpMembers(d, i + 1)
DumpsProfile(preferences) == DumpMembers(preferences, 1)

\* core/memory.py line 241: json.loads(profile_json), the value of the last
\* member of each key
LoadsProfile(profile_json) ==
    [k \in ProfileKeys |->
        LET at == {i \in DOMAIN profile_json : profile_json[i].key = k}
        IN IF at = {} THEN AbsentValue
           ELSE profile_json[CHOOSE i \in at : \A j \in at : j <= i].value]

\* core/memory.py lines 235 and 260: the id of the document of user_id
ProfileId_Shared(user_id) == <<"profile", "u1">>
ProfileId(user_id) == <<"profile", user_id>>

\* core/memory.py lines 223-246
load_user_profile(collection, user_id) ==
    LET profile_json == collection[ProfileId(user_id)]
    IN IF profile_json = NoDocument THEN NoProfile
       ELSE [none |-> FALSE, dict |-> LoadsProfile(profile_json)]

\* core/memory.py lines 259-282: the collection after the upsert
save_user_profile(collection, user_id, preferences) ==
    [collection EXCEPT ![ProfileId(user_id)] = DumpsProfile(preferences)]

\* The preferences the extraction of reflection returns
ReflectedPreferences ==
    {[interests |-> ListValue(<<2, 1>>), skill_level |-> AbsentValue],
     [interests |-> ListValue(<<1>>), skill_level |-> StrValue(<<7>>)],
     [interests |-> AbsentValue, skill_level |-> StrValue(<<>>)],
     EmptyDict}

ProfilesFrame ==
    UNCHANGED <<vars, pure_vars, legacy_vars, session_vars, rest_vars>>

\* agent/graph.py lines 28-50: a conversation of user_id starts on thread t
ConversationStart(t) ==
    /\ conversations[t].node = "none"
    /\ \E user_id \in UserIds :
         conversations' =
            [conversations EXCEPT ![t] = [node |-> "llm_router",
                                          user_id |-> user_id,
                                          user_profile |-> NoProfile,
                                          written |-> NothingSaved]]
    /\ UNCHANGED <<profile_collection, saved_profiles>>
    /\ ProfilesFrame

\* agent/nodes/router.py lines 28-31 and 56-59: the classification step loads
\* the profile of the conversation's user into the state
RouterLoadsProfile(t) ==
    /\ conversations[t].node = "llm_router"
    /\ conversations' =
         [conversations EXCEPT
            ![t].node = "reflection_node",
            ![t].user_profile =
                load_user_profile(profile_collection, conversations[t].user_id)]
    /\ UNCHANGED <<profile_collection, saved_profiles>>
    /\ ProfilesFrame

\* The preferences argument of a write_memory call, parsed
WrittenPreferences ==
    {[interests |-> ListValue(<<3>>), skill_level |-> StrValue(<<8>>)]}

\* tools/memory_tools.py lines 46-86 (run by tool_executor between the
\* classification and reflection): write_memory saves the parsed preferences
\* as the profile of the conversation's user
WriteMemory(t) ==
    /\ conversations[t].node = "reflection_node"
    /\ \E prefs \in WrittenPreferences :
         LET user_id == conversations[t].user_id
         IN /\ profile_collection' =
                 save_user_profile(profile_collection, user_id, prefs)
            /\ saved_profiles' =
                 [saved_profiles EXCEPT ![user_id] =
                                           [done |-> TRUE, dict |-> prefs]]
            /\ conversations' =
                 [conversations EXCEPT ![t].written =
                                           [done |-> TRUE, dict |-> prefs]]
    /\ ProfilesFrame

\* routes.py lines 144-153: a cancelled conversation never reaches reflection
ConversationCancelled(t) ==
    /\ conversations[t].node = "reflection_node"
    /\ conversations' = [conversations EXCEPT ![t] = NoConversation]
    /\ UNCHANGED <<profile_collection, saved_profiles>>
    /\ ProfilesFrame

\* agent/nodes/reflection.py lines 40-63: the extraction parsed, the merge
\* with the profile of the state, and a save that returned True
ReflectionSaves(t) ==
    /\ conversations[t].node = "reflection_node"
    /\ \E new_preferences \in ReflectedPreferences :
         LET user_id == conversations[t].user_id
             merged == MergeProfile(conversations[t].user_profile.dict,
                                    new_preferences)
         IN /\ profile_collection' =
                 save_user_profile(profile_collection, user_id, merged)
            /\ saved_profiles' =
                 [saved_profiles EXCEPT ![user_id] =
                                           [done |-> TRUE, dict |-> merged]]
    /\ conversations' = [conversations EXCEPT ![t] = NoConversation]
    /\ ProfilesFrame

\* agent/nodes/reflection.py lines 64-70 and core/memory.py lines 285-287:
\* the extraction did not parse, or the save returned False
ReflectionFails(t) ==
    /\ conversations[t].node = "reflection_node"
    /\ conversations' = [conversations EXCEPT ![t] = NoConversation]
    /\ UNCHANGED <<profile_collection, saved_profiles>>
    /\ ProfilesFrame

ProfilesNext ==
    \E t \in ThreadIds :
        \/ ConversationStart(t)
        \/ RouterLoadsProfile(t)
        \/ WriteMemory(t)
        \/ ConversationCancelled(t)
        \/ ReflectionSaves(t)
        \/ ReflectionFails(t)

ProfilesSpec == Init /\ [][ProfilesNext]_profile_vars

\* ================= one thread_id served by UI workers and by the API
\* The UI handlers are plain functions that the UI framework runs on worker
\* threads, /chat/approve is a coroutine without an await; all of them work
\* on the same active_sessions and on the same checkpointer, and nothing
\* in the code locks a thread_id.
Intents == {"approve", "modify", "cancel"}

UiFrame ==
    UNCHANGED <<vars, pure_vars, legacy_vars, session_vars, profile_vars,
                single_vars, memory_vars>>

\* start_new_conversation: a complex question is planned, the run stops before
\* human_approval_node and the session is stored under the new thread_id
UiStartConversation ==
    /\ ui_checkpoint = "none"
    /\ ~ui_session
    /\ ui_session' = TRUE
    /\ ui_checkpoint' = "human_approval_node"
    /\ UNCHANGED <<ui_workers, api_reply, pipeline_runs>>
    /\ UiFrame

\* process_message and the head of continue_with_response: the lookup of the
\* thread_id; a thread_id that is not stored starts another conversation
UiLookup(w) ==
    /\ ui_checkpoint # "none"
    /\ ui_workers[w].pc = "idle"
    /\ ui_workers' = [ui_workers EXCEPT ![w] =
           IF ui_session THEN [pc |-> "feedback", reply |-> "none"]
           ELSE [pc |-> "idle", reply |-> "new conversation"]]
    /\ UNCHANGED <<ui_session, ui_checkpoint, api_reply, pipeline_runs>>
    /\ UiFrame

\* continue_with_response: handle_human_feedback; a cancel removes the session
\* and returns, any other intent is written with update_state
UiFeedback(w) ==
    /\ ui_workers[w].pc = "feedback"
    /\ \E intent \in Intents :
          IF intent = "cancel"
          THEN /\ ui_session' = FALSE
               /\ ui_workers' = [ui_workers EXCEPT ![w] =
                      [pc |-> "idle", reply |-> "cancelled"]]
          ELSE /\ ui_workers' = [ui_workers EXCEPT ![w] =
                      [pc |-> "stream", reply |-> "none"]]
               /\ UNCHANGED ui_session
    /\ UNCHANGED <<ui_checkpoint, api_reply, pipeline_runs>>
    /\ UiFrame

\* graph.stream(None, config) reads the checkpoint of the thread: a run that is
\* not at END is resumed, a run at END has nothing left
ResumesRun(checkpoint) == checkpoint # "END"

UiStreamBegins(w) ==
    /\ ui_workers[w].pc = "stream"
    /\ ui_workers' = [ui_workers EXCEPT ![w].pc =
           IF ResumesRun(ui_checkpoint) THEN "running" ELSE "cleanup"]
    /\ UNCHANGED <<ui_session, ui_checkpoint, api_reply, pipeline_runs>>
    /\ UiFrame

\* the resumed run: the recommendation loop, the guide, reflection and its
\* profile write, then END
UiStreamEnds(w) ==
    /\ ui_workers[w].pc = "running"
    /\ pipeline_runs' = pipeline_runs + 1
    /\ ui_checkpoint' = "END"
    /\ ui_workers' = [ui_workers EXCEPT ![w].pc = "cleanup"]
    /\ UNCHANGED <<ui_session, api_reply>>
    /\ UiFrame

\* the tail of continue_with_response: final_guide is read, the session is
\* removed if it is still stored
UiCleanup(w) ==
    /\ ui_workers[w].pc = "cleanup"
    /\ ui_session' = FALSE
    /\ ui_workers' = [ui_workers EXCEPT ![w] =
           [pc |-> "idle", reply |-> "completed"]]
    /\ UNCHANGED <<ui_checkpoint, api_reply, pipeline_runs>>
    /\ UiFrame

\* POST /chat/approve: the whole handler runs between two steps of the event
\* loop, the worker threads of the UI are not stopped by it
ApiApprovePlan ==
    /\ ui_checkpoint # "none"
    /\ \E intent \in Intents :
          IF ~ui_session
          THEN /\ api_reply' = "not found"
               /\ UNCHANGED <<ui_session, ui_checkpoint, pipeline_runs>>
          ELSE IF intent = "cancel"
          THEN /\ api_reply' = "cancelled"
               /\ ui_session' = FALSE
               /\ UNCHANGED <<ui_checkpoint, pipeline_runs>>
          ELSE /\ api_reply' = "completed"
               /\ ui_session' = FALSE
               /\ ui_checkpoint' = "END"
               /\ pipeline_runs' =
                      IF ResumesRun(ui_checkpoint) THEN pipeline_runs + 1
                      ELSE pipeline_runs
    /\ UNCHANGED ui_workers
    /\ UiFrame

UiWorkerStep ==
    \E w \in Workers :
        \/ UiLookup(w)
        \/ UiFeedback(w)
        \/ UiStreamBegins(w)
        \/ UiStreamEnds(w)
        \/ UiCleanup(w)

UiNext ==
    \/ UiStartConversation
    \/ UiWorkerStep
    \/ ApiApprovePlan

UiSpec == Init /\ [][UiNext]_ui_vars

\* ===================== the single-file variant (src/graph.py, main.py)
\* src/graph.py lines 724-727: interrupt_before=["recommend_tool_node"]; the
\* interrupt fires whenever the node is next, except on the first step of a
\* resumed stream
SingleInterrupt ==
    single_next.node = "recommend_tool_node" /\ ~single_next.fresh
SingleStopped == single_next.node = "END" \/ SingleInterrupt
SingleCanRun(node) ==
    /\ single_running \in {"approve", "resume"}
    /\ single_next.node = node
    /\ ~SingleStopped
SingleGoto(node) == single_next' = [node |-> node, fresh |-> FALSE]
SingleReply(op, intent, status, guide) ==
    [op |-> op, intent |-> intent, status |-> status, final_guide |-> guide]

SingleFrame ==
    UNCHANGED <<vars, pure_vars, legacy_vars, session_vars, profile_vars,
                ui_vars, memory_vars>>

\* main.py lines 109-159: /chat/start streams a new graph; a simple question
\* is answered at once, a complex one is planned, stopped before
\* recommend_tool_node and stored
SingleStartChat ==
    /\ single_running = "none"
    /\ \E complex \in BOOLEAN, n \in 0..MaxPlanLen :
         IF complex
         THEN /\ single_state' = [SingleInitialState EXCEPT
                                    !.is_complex_task = TRUE, !.sub_tasks = n]
              /\ single_next' = [node |-> "recommend_tool_node", fresh |-> FALSE]
              /\ single_session' = TRUE
              /\ single_response' =
                   SingleReply("start", "none", "pending_approval", None)
         ELSE /\ single_state' = [SingleInitialState EXCEPT
                                    !.final_guide = "guide", !.reflected = TRUE]
              /\ single_next' = [node |-> "END", fresh |-> FALSE]
              /\ UNCHANGED single_session
              /\ single_response' =
                   SingleReply("start", "none", "completed", "guide")
    /\ UNCHANGED single_running
    /\ SingleFrame

\* src/graph.py lines 627-670: handle_human_feedback on the checkpointed
\* state; a revision gives a plan of n sub-tasks
SingleFeedback(state, intent, n) ==
    IF intent = "modify"
    THEN [state EXCEPT !.sub_tasks = n, !.current_task_idx = 0]
    ELSE state

\* main.py lines 165-207: /chat/approve; cancel drops the session and
\* answers, any other feedback is written and the stream resumed
SingleApprovePlan ==
    /\ single_running = "none"
    /\ \E intent \in Intents, n \in 0..MaxPlanLen :
         IF ~single_session
         THEN /\ single_response' =
                   SingleReply("approve", intent, "not_found", None)
              /\ UNCHANGED <<single_state, single_next, single_running,
                             single_session>>
         ELSE IF intent = "cancel"
         THEN /\ single_session' = FALSE
              /\ single_response' =
                   SingleReply("approve", intent, "cancelled", None)
              /\ UNCHANGED <<single_state, single_next, single_running>>
         ELSE /\ single_state' = SingleFeedback(single_state, intent, n)
              /\ single_next' = [single_next EXCEPT !.fresh = TRUE]
              /\ single_running' = "approve"
              /\ single_response' =
                   SingleReply("approve", intent, "running", None)
              /\ UNCHANGED single_session
    /\ SingleFrame

\* src/graph.py lines 790-821: resume_after_approval on a thread that has a
\* checkpoint
SingleResumeAfterApproval ==
    /\ single_running = "none"
    /\ single_next.node # "none"
    /\ \E intent \in Intents, n \in 0..MaxPlanLen :
         IF intent = "cancel"
         THEN /\ single_response' =
                   SingleReply("resume", intent, "cancelled", "cancelled_text")
              /\ UNCHANGED <<single_state, single_next, single_running>>
         ELSE /\ single_state' = SingleFeedback(single_state, intent, n)
              /\ single_next' = [single_next EXCEPT !.fresh = TRUE]
              /\ single_running' = "resume"
              /\ single_response' =
                   SingleReply("resume", intent, "running", None)
    /\ UNCHANGED single_session
    /\ SingleFrame

\* src/graph.py lines 310-393: recommend_tool_node, then route_after_recommend
\* (lines 606-622)
SingleRecommendToolNode ==
    /\ SingleCanRun("recommend_tool_node")
    /\ LET st == single_state IN
       IF st.current_task_idx >= st.sub_tasks THEN
           single_state' = [st EXCEPT !.tool_result = None]
       ELSE IF st.tool_call_count >= MAX_TOOL_CALLS_PER_TASK THEN
           single_state' = [st EXCEPT !.tool_result = None,
                                      !.current_task_idx = @ + 1,
                                      !.tool_call_count = 0]
       ELSE
           \E tool_calls \in BOOLEAN :
             single_state' =
               IF tool_calls
               THEN [st EXCEPT !.tool_result = "tool_call",
                               !.tool_call_count = @ + 1]
               ELSE [st EXCEPT !.tool_result = None,
                               !.current_task_idx = @ + 1,
                               !.tool_call_count = 0]
    /\ SingleGoto(IF single_state'.tool_result # None THEN "tool_executor"
                  ELSE IF single_state'.current_task_idx < single_state'.sub_tasks
                  THEN "recommend_tool_node"
                  ELSE "guide_generation_node")
    /\ UNCHANGED <<single_running, single_session, single_response>>
    /\ SingleFrame

\* src/graph.py lines 396-450: tool_executor_node returns tool_result None on
\* both branches; edge back to recommend_tool_node
SingleToolExecutor ==
    /\ SingleCanRun("tool_executor")
    /\ single_state' = [single_state EXCEPT !.tool_result = None]
    /\ SingleGoto("recommend_tool_node")
    /\ UNCHANGED <<single_running, single_session, single_response>>
    /\ SingleFrame

\* src/graph.py lines 453-531: guide_generation_node; edge to reflection_node
SingleGuideGeneration ==
    /\ SingleCanRun("guide_generation_node")
    /\ single_state' = [single_state EXCEPT !.final_guide = "guide"]
    /\ SingleGoto("reflection_node")
    /\ UNCHANGED <<single_running, single_session, single_response>>
    /\ SingleFrame

\* src/graph.py lines 534-595: reflection_node; edge to END
SingleReflection ==
    /\ SingleCanRun("reflection_node")
    /\ single_state' = [single_state EXCEPT !.reflected = TRUE]
    /\ SingleGoto("END")
    /\ UNCHANGED <<single_running, single_session, single_response>>
    /\ SingleFrame

\* main.py lines 209-225: the stream has stopped; /chat/approve reads
\* final_guide, drops the session and answers completed
SingleApproveReturn ==
    /\ single_running = "approve"
    /\ SingleStopped
    /\ single_running' = "none"
    /\ single_session' = FALSE
    /\ single_response' = [single_response EXCEPT
                             !.status = "completed",
                             !.final_guide = single_state.final_guide]
    /\ UNCHANGED <<single_state, single_next>>
    /\ SingleFrame

\* src/graph.py lines 823-827: the stream has stopped; resume_after_approval
\* returns the state of the thread
SingleResumeReturn ==
    /\ single_running = "resume"
    /\ SingleStopped
    /\ single_running' = "none"
    /\ single_response' = [single_response EXCEPT
                             !.status = "state",
                             !.final_guide = single_state.final_guide]
    /\ UNCHANGED <<single_state, single_next, single_session>>
    /\ SingleFrame

SingleNext ==
    \/ SingleStartChat
    \/ SingleApprovePlan
    \/ SingleResumeAfterApproval
    \/ SingleRecommendToolNode
    \/ SingleToolExecutor
    \/ SingleGuideGeneration
    \/ SingleReflection
    \/ SingleApproveReturn
    \/ SingleResumeReturn

SingleSpec == Init /\ [][SingleNext]_single_vars

\* ============ the memory files of the plan/review/research/evaluate variant
\* src/agents/nodes/memory.py lines 173 and 197: the file of a user_id
MemoryFile(user_id) == <<"data/memory", user_id, "json">>
\* src/api/main.py line 137: /chat loads the profile of user_id=session_id
MemoryLoadKey(session_id) == session_id
\* src/agents/nodes/memory.py line 47: the memory step saves for
\* user_id="default"
MemorySaveKey(session_id) == "default"
\* What the extraction of the memory step yields
ExtractedPreferences == {"preferences 1", "preferences 2"}
\* src/agents/nodes/memory.py lines 183-211: load_user_profile; {} when the
\* file does not exist
LoadMemoryFile(files, user_id) ==
    IF files[user_id] = NoFile THEN "empty dict" ELSE files[user_id]

MemoryFrame ==
    UNCHANGED <<vars, pure_vars, legacy_vars, session_vars, profile_vars,
                ui_vars, single_vars>>

\* src/api/main.py lines 130-137: a request of the session starts and loads
\* the profile
LegacyChatLoadsProfile(session_id) ==
    /\ memory_sessions' =
         [memory_sessions EXCEPT
            ![session_id].stage = "running",
            ![session_id].load_key = MemoryLoadKey(session_id),
            ![session_id].loaded =
                LoadMemoryFile(memory_files, MemoryLoadKey(session_id))]
    /\ UNCHANGED memory_files
    /\ MemoryFrame

\* src/agents/nodes/memory.py lines 28-56 and 146-180: MemoryNode at the end of
\* the session's run extracts the preferences and writes the file
LegacyMemoryNode(session_id) ==
    /\ memory_sessions[session_id].stage = "running"
    /\ \E preferences \in ExtractedPreferences :
         /\ memory_files' =
              [memory_files EXCEPT ![MemorySaveKey(session_id)] = preferences]
         /\ memory_sessions' =
              [memory_sessions EXCEPT
                 ![session_id].stage = "done",
                 ![session_id].save_key = MemorySaveKey(session_id),
                 ![session_id].saved = preferences]
    /\ MemoryFrame

MemoryNext ==
    \E session_id \in MemoryUserIds :
        \/ LegacyChatLoadsProfile(session_id)
        \/ LegacyMemoryNode(session_id)

MemorySpec == Init /\ [][MemoryNext]_memory_vars

\* ============================== the plan/review/research/evaluate variant
\* Bound: longest plan the planner of the variant returns
MaxLegacyTasks == 4

SessionId == "s1"

\* src/api/main.py lines 163-167, 256, 280: sessions[session_id]["state"] is
\* the state the invoke returned, kept by the fields get_status reads of it
\* (lines 325-335)
StoredSession(state) ==
    [present |-> TRUE, plan_approved |-> state.plan_approved,
     plan_count |-> Len(state.plan),
     final_response_available |-> state.final_response # ""]
\* A ChatResponse, or the HTTP error, returned for session_id
LegacyReply(op, session_id, status, body) ==
    [op |-> op, session_id |-> session_id, status |-> status,
     response |-> body, state |-> NoLegacySession]
\* evaluation_results entry of a sub-task whose candidate list is empty
NoCandidates == -1
\* final_score of a sub-task's top candidate, in hundredths
TopScores == {40, 50, 60, 100}
\* src/agents/graph.py line 77 and line 65, in hundredths
RETRY_THRESHOLD == 65
LOW_SCORE == 60

\* src/agents/graph.py lines 52-66: the loop over evaluation_results; the
\* accumulators after the tasks of `results` from position i on
RECURSIVE ScoreLoop(_, _, _)
ScoreLoop(results, i, acc) ==
    IF i > Len(results) THEN acc
    ELSE IF results[i] = NoCandidates THEN ScoreLoop(results, i + 1, acc)
    ELSE ScoreLoop(results, i + 1,
           [total_score |-> acc.total_score + results[i],
            task_count |-> acc.task_count + 1,
            low_score_count |->
                acc.low_score_count + (IF results[i] < LOW_SCORE THEN 1 ELSE 0)])

\* avg_score < retry_threshold in floating point: exact away from the
\* threshold; when the exact mean equals 0.65 the rounded sum of the scores
\* can fall below it (0.35 + 0.95) or not (0.5 + 0.8), `tie_below` says which
AvgBelowThreshold(acc, tie_below) ==
    \/ acc.total_score < RETRY_THRESHOLD * acc.task_count
    \/ acc.total_score = RETRY_THRESHOLD * acc.task_count /\ tie_below

\* The outcomes of the comparison the rounding of the sum leaves open
TieOutcomes(results) ==
    LET acc == ScoreLoop(results, 1,
                 [total_score |-> 0, task_count |-> 0, low_score_count |-> 0])
    IN IF acc.task_count > 0 /\ acc.total_score = RETRY_THRESHOLD * acc.task_count
       THEN BOOLEAN ELSE {FALSE}

\* low_score_ratio >= 0.5
LowRatioReached_Majority(acc) == 2 * acc.low_score_count > acc.task_count
LowRatioReached(acc) == 2 * acc.low_score_count >= acc.task_count

\* retry_count >= MAX_RETRIES
RetriesExhausted_Never(retry_count) == FALSE
RetriesExhausted(retry_count) == retry_count >= MAX_RETRIES

\* src/agents/graph.py lines 28-87
should_retry(retry_count, evaluation_results, tie_below) ==
    LET acc == ScoreLoop(evaluation_results, 1,
                 [total_score |-> 0, task_count |-> 0, low_score_count |-> 0])
    IN IF RetriesExhausted(retry_count) THEN "continue"
       ELSE IF evaluation_results = <<>> THEN "continue"
       ELSE IF acc.task_count = 0 THEN "continue"
       ELSE IF AvgBelowThreshold(acc, tie_below) /\ LowRatioReached(acc)
       THEN "retry"
       ELSE "continue"

\* src/agents/nodes/reviewer.py lines 55-70
should_continue_Approved(plan_approved) == "approved"
should_continue(plan_approved) == IF plan_approved THEN "approved" ELSE "revise"

\* src/agents/nodes/planner.py lines 40-50: which plan the planner builds
PlannerMode(feedback, retry_count) ==
    IF feedback # None THEN "refine"
    ELSE IF retry_count > 0 THEN "retry"
    ELSE "create"

\* src/agents/graph.py line 209: interrupt_before=["review"]
LegacyInterrupt ==
    legacy_next.node = "review" /\ ~legacy_next.fresh
LegacyStopped == legacy_next.node = "END" \/ LegacyInterrupt
LegacyCanRun(node) ==
    /\ legacy_running \in {"chat", "approve"}
    /\ legacy_next.node = node
    /\ ~LegacyStopped

\* The graph moves on to `node`; an interrupt at it fires from now on
LegacyGoto(node) == legacy_next' = [node |-> node, fresh |-> FALSE]
LegacyFrame ==
    UNCHANGED <<vars, pure_vars, session_vars, profile_vars, rest_vars>>

\* What the evaluation of a plan of n sub-tasks can yield: one top score or
\* no candidate per sub-task. should_retry only sums and counts the entries,
\* so one order of each combination of scores is drawn.
EvaluationResults(n) ==
    {results \in [1..n -> TopScores \cup {NoCandidates}] :
        \A i \in 1..(n - 1) : results[i] <= results[i + 1]}

\* src/api/main.py lines 116-162: /chat builds the initial state and invokes
\* the graph on the session's thread
LegacyChat ==
    /\ legacy_running = "none"
    /\ legacy_state' = LegacyInitialState
    /\ legacy_next' = [node |-> "plan", fresh |-> FALSE]
    /\ legacy_running' = "chat"
    /\ legacy_response' = NoLegacyResponse
    /\ legacy_hist' = NoLegacyHist
    /\ UNCHANGED legacy_sessions
    /\ LegacyFrame

\* src/api/main.py lines 164-205: the invoke has returned; store the session
\* and answer
LegacyChatReturn ==
    /\ legacy_running = "chat"
    /\ LegacyStopped
    /\ legacy_running' = "none"
    /\ legacy_sessions' =
         [legacy_sessions EXCEPT ![SessionId] = StoredSession(legacy_state)]
    /\ legacy_response' =
         IF ~legacy_state.plan_approved
         THEN LegacyReply("chat", SessionId, "awaiting_approval", None)
         ELSE LegacyReply("chat", SessionId, "completed",
                          legacy_state.final_response)
    /\ UNCHANGED <<legacy_state, legacy_next, legacy_hist>>
    /\ LegacyFrame

\* src/agents/nodes/planner.py lines 26-55: PlannerNode, then the edge to review
LegacyPlan ==
    /\ LegacyCanRun("plan")
    /\ \E n \in 0..MaxLegacyTasks :
         legacy_state' = [legacy_state EXCEPT !.plan = [i \in 1..n |-> "task"],
                                              !.plan_approved = FALSE]
    /\ LegacyGoto("review")
    /\ legacy_hist' =
         [legacy_hist EXCEPT
            !.planner_mode =
                PlannerMode(legacy_state.user_feedback, legacy_state.retry_count),
            !.replans = @ + (IF legacy_hist.after_retry THEN 1 ELSE 0),
            !.after_retry = FALSE]
    /\ UNCHANGED <<legacy_running, legacy_sessions, legacy_response>>
    /\ LegacyFrame

\* src/agents/nodes/reviewer.py lines 35-70: ReviewNode returns {}, then
\* should_continue
LegacyReview ==
    /\ LegacyCanRun("review")
    /\ LegacyGoto(IF should_continue(legacy_state.plan_approved) = "approved"
                  THEN "research" ELSE "plan")
    /\ UNCHANGED <<legacy_state, legacy_running, legacy_sessions, legacy_response,
                   legacy_hist>>
    /\ LegacyFrame

\* src/agents/nodes/researcher.py lines 23-100: one candidate list per
\* sub-task; edge to evaluate
LegacyResearch ==
    /\ LegacyCanRun("research")
    /\ LegacyGoto("evaluate")
    /\ UNCHANGED <<legacy_state, legacy_running, legacy_sessions, legacy_response,
                   legacy_hist>>
    /\ LegacyFrame

\* src/agents/nodes/evaluator.py lines 26-91: one sorted candidate list per
\* researched sub-task, empty where research found none; then should_retry
LegacyEvaluate ==
    /\ LegacyCanRun("evaluate")
    /\ \E results \in EvaluationResults(Len(legacy_state.plan)) :
       \E tie_below \in TieOutcomes(results) :
         /\ legacy_state' = [legacy_state EXCEPT !.evaluation_results = results]
         /\ legacy_hist' = [legacy_hist EXCEPT !.tie_below = tie_below]
         /\ LegacyGoto(IF should_retry(legacy_state.retry_count, results,
                                       tie_below) = "retry"
                       THEN "increment_retry" ELSE "guide")
    /\ UNCHANGED <<legacy_running, legacy_sessions, legacy_response>>
    /\ LegacyFrame

\* src/agents/graph.py lines 90-106: increment_retry, then the edge to plan
LegacyIncrementRetry ==
    /\ LegacyCanRun("increment_retry")
    /\ legacy_state' = [legacy_state EXCEPT !.retry_count = @ + 1,
                                            !.plan_approved = FALSE]
    /\ LegacyGoto("plan")
    /\ legacy_hist' = [legacy_hist EXCEPT !.after_retry = TRUE]
    /\ UNCHANGED <<legacy_running, legacy_sessions, legacy_response>>
    /\ LegacyFrame

\* src/agents/nodes/guide_generator.py lines 25-75; edge to synthesize
LegacyGuide ==
    /\ LegacyCanRun("guide")
    /\ LegacyGoto("synthesize")
    /\ UNCHANGED <<legacy_state, legacy_running, legacy_sessions, legacy_response,
                   legacy_hist>>
    /\ LegacyFrame

\* src/agents/nodes/synthesizer.py lines 23-40; edge to memory
LegacySynthesize ==
    /\ LegacyCanRun("synthesize")
    /\ legacy_state' = [legacy_state EXCEPT !.final_response = "final_response"]
    /\ LegacyGoto("memory")
    /\ UNCHANGED <<legacy_running, legacy_sessions, legacy_response, legacy_hist>>
    /\ LegacyFrame

\* src/agents/nodes/memory.py lines 28-56: MemoryNode returns {}; edge to END
LegacyMemory ==
    /\ LegacyCanRun("memory")
    /\ LegacyGoto("END")
    /\ UNCHANGED <<legacy_state, legacy_running, legacy_sessions, legacy_response,
                   legacy_hist>>
    /\ LegacyFrame

\* src/api/main.py lines 231-236: unknown session_id, HTTP 404
LegacyApproveNotFound ==
    /\ legacy_running = "none"
    /\ ~legacy_sessions[SessionId].present
    /\ legacy_response' = LegacyReply("approve", SessionId, "not_found", None)
    /\ UNCHANGED <<legacy_state, legacy_next, legacy_running, legacy_sessions,
                   legacy_hist>>
    /\ LegacyFrame

\* src/api/main.py lines 238-253 and 266-277: update the checkpointed state
\* with the verdict and resume the graph
LegacyApprove ==
    /\ legacy_running = "none"
    /\ legacy_sessions[SessionId].present
    /\ \E approved \in BOOLEAN :
         /\ legacy_state' =
              IF approved
              THEN [legacy_state EXCEPT !.plan_approved = TRUE]
              ELSE [legacy_state EXCEPT !.plan_approved = FALSE,
                                        !.user_feedback = "feedback"]
         /\ legacy_hist' = [legacy_hist EXCEPT !.approved = approved]
    /\ legacy_next' = [legacy_next EXCEPT !.fresh = TRUE]
    /\ legacy_running' = "approve"
    /\ legacy_response' = NoLegacyResponse
    /\ UNCHANGED legacy_sessions
    /\ LegacyFrame

\* src/api/main.py lines 255-264 and 279-300: the invoke has returned; an
\* approval answers completed with final_response, a rejection answers
\* awaiting_approval with the new plan
LegacyApproveReturn ==
    /\ legacy_running = "approve"
    /\ LegacyStopped
    /\ legacy_running' = "none"
    /\ legacy_sessions' =
         [legacy_sessions EXCEPT ![SessionId] = StoredSession(legacy_state)]
    /\ legacy_response' =
         IF legacy_hist.approved
         THEN LegacyReply("approve", SessionId, "completed",
                          legacy_state.final_response)
         ELSE LegacyReply("approve", SessionId, "awaiting_approval", None)
    /\ UNCHANGED <<legacy_state, legacy_next, legacy_hist>>
    /\ LegacyFrame

LegacyNext ==
    \/ LegacyChat
    \/ LegacyPlan
    \/ LegacyChatReturn
    \/ LegacyApproveNotFound
    \/ LegacyApprove
    \/ LegacyReview
    \/ LegacyResearch
    \/ LegacyEvaluate
    \/ LegacyIncrementRetry
    \/ LegacyGuide
    \/ LegacySynthesize
    \/ LegacyMemory
    \/ LegacyApproveReturn

LegacySpec == Init /\ [][LegacyNext]_legacy_vars

\* ------------------------------ the sessions dict of src/api/main.py
\* The handlers of src/api/main.py are coroutines without an await, so each
\* request is served whole.  The graph runs of /chat and /approve are taken
\* by the state they return, as LegacyNext produces it.

\* src/api/main.py lines 235, 321, 347: session_id in sessions
LegacySessionExists(store, session_id) == store[session_id].present

\* src/api/main.py lines 348-349: del sessions[session_id]
RemoveSession_All(store, session_id) ==
    [s \in LegacySessionIds |-> NoLegacySession]
RemoveSession(store, session_id) ==
    [store EXCEPT ![session_id] = NoLegacySession]

\* src/api/main.py line 160: the invoke of /chat runs plan and stops before
\* review
ChatResults ==
    {StoredSession([LegacyInitialState EXCEPT !.plan = [i \in 1..n |-> "task"]]) :
        n \in 0..MaxLegacyTasks}

\* src/api/main.py lines 250-256 and 271-280: the state the resumed graph
\* returns. An ended graph runs no node; an approval runs to END or, after a
\* retry, to the next plan; a rejection runs to the next plan.
ApproveResults(entry, approved) ==
    IF entry.final_response_available
    THEN {[entry EXCEPT !.plan_approved = approved]}
    ELSE (IF approved
          THEN {[entry EXCEPT !.plan_approved = TRUE,
                              !.final_response_available = TRUE]}
          ELSE {}) \cup ChatResults

LegacyStoreFrame ==
    UNCHANGED <<legacy_state, legacy_next, legacy_running, legacy_hist, vars,
                pure_vars, session_vars, profile_vars, rest_vars>>

\* src/api/main.py lines 117-197: /chat for session_id
LegacyChatRequest(session_id) ==
    /\ \E result \in ChatResults :
         legacy_sessions' = [legacy_sessions EXCEPT ![session_id] = result]
    /\ legacy_response' =
         LegacyReply("chat", session_id, "awaiting_approval", None)
    /\ LegacyStoreFrame

\* src/api/main.py lines 219-300: /approve for session_id
LegacyApproveRequest(session_id) ==
    /\ \E approved \in BOOLEAN :
         IF ~LegacySessionExists(legacy_sessions, session_id)
         THEN /\ legacy_response' =
                   LegacyReply("approve", session_id, "not_found", None)
              /\ UNCHANGED legacy_sessions
         ELSE \E result \in ApproveResults(legacy_sessions[session_id], approved) :
                /\ legacy_sessions' =
                     [legacy_sessions EXCEPT ![session_id] = result]
                /\ legacy_response' =
                     IF approved
                     THEN LegacyReply("approve", session_id, "completed",
                                      IF result.final_response_available
                                      THEN "final_response" ELSE "")
                     ELSE LegacyReply("approve", session_id,
                                      "awaiting_approval", None)
    /\ LegacyStoreFrame

\* src/api/main.py lines 312-335: GET /status/{session_id}
get_status(session_id) ==
    /\ legacy_response' =
         IF ~LegacySessionExists(legacy_sessions, session_id)
         THEN LegacyReply("status", session_id, "not_found", None)
         ELSE [LegacyReply("status", session_id, "ok", None)
                 EXCEPT !.state = legacy_sessions[session_id]]
    /\ UNCHANGED legacy_sessions
    /\ LegacyStoreFrame

\* src/api/main.py lines 338-352: DELETE /session/{session_id}
delete_session(session_id) ==
    /\ IF LegacySessionExists(legacy_sessions, session_id)
       THEN /\ legacy_sessions' = RemoveSession(legacy_sessions, session_id)
            /\ legacy_response' =
                 LegacyReply("delete", session_id, "deleted", None)
       ELSE /\ legacy_response' =
                 LegacyReply("delete", session_id, "not_found", None)
            /\ UNCHANGED legacy_sessions
    /\ LegacyStoreFrame

LegacyStoreNext ==
    \E session_id \in LegacySessionIds :
        \/ LegacyChatRequest(session_id)
        \/ LegacyApproveRequest(session_id)
        \/ get_status(session_id)
        \/ delete_session(session_id)

LegacyStoreSpec == Init /\ [][LegacyStoreNext]_legacy_vars

\* ------------------------------------------ sessions of several clients
\* The query of the client that owns thread_id t
QueryOf(t) == t

\* routes.py lines 98, 122, 125, 146, 168: active_sessions is keyed by the
\* thread_id of the request
SessionKey_Shared(thread_id) == "t1"
SessionKey(thread_id) == thread_id

\* routes.py line 122: thread_id in active_sessions
SessionExists_Always(store, thread_id) == TRUE
SessionExists(store, thread_id) == store[SessionKey(thread_id)].present

\* routes.py lines 73-86: a new graph streamed from the initial state until
\* it stops: a complex request stops before human_approval_node with its
\* plan, a simple one runs to END and leaves final_guide unset
StartedGraph(router_out, planner_out, query) ==
    IF ParseIsComplex(router_out)
    THEN [is_complex_task |-> TRUE, sub_tasks |-> ParsePlan(planner_out, query),
          final_guide |-> None, next_node |-> "human_approval_node"]
    ELSE [is_complex_task |-> FALSE, sub_tasks |-> <<>>,
          final_guide |-> None, next_node |-> "END"]

\* routes.py lines 155-164: update_state and the resumed stream: a graph
\* stopped before human_approval_node runs on to END and writes its guide,
\* a graph already at END runs nothing
ResumedGraph(graph, updates) ==
    IF graph.next_node = "END" THEN graph
    ELSE [graph EXCEPT !.sub_tasks = Updated(updates, "sub_tasks", @),
                       !.final_guide = "guide_text",
                       !.next_node = "END"]

SessionsFrame ==
    UNCHANGED <<vars, pure_vars, legacy_vars, profile_vars, rest_vars>>

\* routes.py lines 67-86: start_chat up to the end of the stream
SessStart(t) ==
    /\ requests[t].op = "none"
    /\ \E router_out \in RouterOutputs, planner_out \in PlannerOutputs :
         requests' = [requests EXCEPT ![t] =
             [op |-> "start",
              graph |-> StartedGraph(router_out, planner_out, QueryOf(t))]]
    /\ replies' = [replies EXCEPT ![t] = NoReply]
    /\ served' = t
    /\ UNCHANGED sessions
    /\ SessionsFrame

\* routes.py lines 87-112: answer a finished simple request, or store the
\* session and ask for approval
SessStartReturn(t) ==
    /\ requests[t].op = "start"
    /\ LET graph == requests[t].graph IN
       IF ~graph.is_complex_task /\ graph.final_guide # None
       THEN /\ replies' = [replies EXCEPT ![t] =
                   [status |-> "completed", plan |-> <<>>,
                    final_guide |-> graph.final_guide]]
            /\ UNCHANGED sessions
       ELSE /\ sessions' = [sessions EXCEPT ![SessionKey(t)] =
                   [present |-> TRUE, graph |-> graph]]
            /\ replies' = [replies EXCEPT ![t] =
                   [status |-> "pending_approval", plan |-> graph.sub_tasks,
                    final_guide |-> None]]
    /\ requests' = [requests EXCEPT ![t] = NoRequest]
    /\ served' = t
    /\ SessionsFrame

\* routes.py lines 122-123: unknown thread_id, HTTP 404
SessApproveNotFound(t) ==
    /\ requests[t].op = "none"
    /\ ~SessionExists(sessions, t)
    /\ replies' = [replies EXCEPT ![t] =
           [status |-> "not_found", plan |-> <<>>, final_guide |-> None]]
    /\ served' = t
    /\ UNCHANGED <<sessions, requests>>
    /\ SessionsFrame

\* routes.py lines 125-160: interpret the feedback; on cancel drop the
\* session and answer, otherwise update the session's graph and resume it
SessApprove(t) ==
    /\ requests[t].op = "none"
    /\ SessionExists(sessions, t)
    /\ \E intent_out \in IntentOutputs, rev \in RevisionOutputs :
         LET graph == sessions[SessionKey(t)].graph
             updates == HandleHumanFeedback(graph.sub_tasks, intent_out, rev)
             resumed == ResumedGraph(graph, updates)
         IN IF IsUserCancel(updates)
            THEN /\ sessions' = [sessions EXCEPT ![SessionKey(t)] = NoSession]
                 /\ replies' = [replies EXCEPT ![t] =
                        [status |-> "cancelled", plan |-> <<>>,
                         final_guide |-> None]]
                 /\ UNCHANGED requests
            ELSE /\ sessions' = [sessions EXCEPT ![SessionKey(t)].graph = resumed]
                 /\ requests' = [requests EXCEPT ![t] =
                        [op |-> "approve", graph |-> resumed]]
                 /\ replies' = [replies EXCEPT ![t] = NoReply]
    /\ served' = t
    /\ SessionsFrame

\* routes.py lines 162-176: drop the session and answer completed
SessApproveReturn(t) ==
    /\ requests[t].op = "approve"
    /\ sessions' = [sessions EXCEPT ![SessionKey(t)] = NoSession]
    /\ replies' = [replies EXCEPT ![t] =
           [status |-> "completed", plan |-> <<>>,
            final_guide |-> requests[t].graph.final_guide]]
    /\ requests' = [requests EXCEPT ![t] = NoRequest]
    /\ served' = t
    /\ SessionsFrame

SessionsNext ==
    \E t \in ThreadIds :
        \/ SessStart(t)
        \/ SessStartReturn(t)
        \/ SessApproveNotFound(t)
        \/ SessApprove(t)
        \/ SessApproveReturn(t)

SessionsSpec == Init /\ [][SessionsNext]_session_vars

\* ------------------------------------------------------ extract_json
\* A text is a sequence of tokens: the characters that steer extract_json,
\* one letter, one digit, one whitespace, the fence of three backticks and
\* the word json
QUOTE == "\""
BACKSLASH == "\\"
SPACE == " "
FENCE == "fence"
JSON_WORD == "json"

MaxTrailingLen == 2
MaxNesting == 2

At(text, i) == IF i \in 1..Len(text) THEN text[i] ELSE "eof"

\* str.strip()
Strip(text) ==
    LET solid == {i \in 1..Len(text) : text[i] # SPACE}
    IN IF solid = {} THEN <<>>
       ELSE SubSeq(text, CHOOSE i \in solid : \A j \in solid : i <= j,
                         CHOOSE i \in solid : \A j \in solid : i >= j)

\* json.loads, as a parser of the tokens: each operator returns the position
\* after what it parsed, or 0 where json.loads raises
RECURSIVE SkipWs(_, _)
SkipWs(text, i) == IF At(text, i) = SPACE THEN SkipWs(text, i + 1) ELSE i

RECURSIVE StringEnd(_, _)
StringEnd(text, i) ==
    IF i > Len(text) THEN 0
    ELSE IF text[i] = QUOTE THEN i + 1
    ELSE IF text[i] = BACKSLASH
         THEN IF At(text, i + 1) \in {QUOTE, BACKSLASH}
              THEN StringEnd(text, i + 2) ELSE 0
    ELSE StringEnd(text, i + 1)

RECURSIVE NumberEnd(_, _)
NumberEnd(text, i) == IF At(text, i) = "1" THEN NumberEnd(text, i + 1) ELSE i

RECURSIVE ValueEnd(_, _)
RECURSIVE ElementsEnd(_, _)
RECURSIVE MembersEnd(_, _)

\* text[i] is the first token of a value
ValueEnd(text, i) ==
    CASE At(text, i) = QUOTE -> StringEnd(text, i + 1)
      [] At(text, i) = "1"   -> NumberEnd(text, i)
      [] At(text, i) = "["   ->
            LET j == SkipWs(text, i + 1)
            IN IF At(text, j) = "]" THEN j + 1 ELSE ElementsEnd(text, j)
      [] At(text, i) = "{"   ->
            LET j == SkipWs(text, i + 1)
            IN IF At(text, j) = "}" THEN j + 1 ELSE MembersEnd(text, j)
      [] OTHER -> 0

ElementsEnd(text, i) ==
    LET e == ValueEnd(text, i)
        k == SkipWs(text, e)
    IN IF e = 0 THEN 0
       ELSE IF At(text, k) = "," THEN ElementsEnd(text, SkipWs(text, k + 1))
       ELSE IF At(text, k) = "]" THEN k + 1
       ELSE 0

MembersEnd(text, i) ==
    LET e == IF At(text, i) = QUOTE THEN StringEnd(text, i + 1) ELSE 0
        k == SkipWs(text, e)
        v == IF e # 0 /\ At(text, k) = ":"
             THEN ValueEnd(text, SkipWs(text, k + 1)) ELSE 0
        m == SkipWs(text, v)
    IN IF v = 0 THEN 0
       ELSE IF At(text, m) = "," THEN MembersEnd(text, SkipWs(text, m + 1))
       ELSE IF At(text, m) = "}" THEN m + 1
       ELSE 0

\* json.loads(candidate) does not raise
JsonLoads(text) ==
    LET e == ValueEnd(text, SkipWs(text, 1))
    IN e # 0 /\ SkipWs(text, e) = Len(text) + 1

\* utils.py lines 53-86: the scan of _extract_first_valid_json from
\* position i on (positions count from 1, so `i > 0` reads i > 1)
RECURSIVE ScanJson(_, _, _, _, _, _)
ScanJson(text, i, brace_count, bracket_count, in_string, escape_next) ==
    IF i > Len(text) THEN text
    ELSE IF escape_next
         THEN ScanJson(text, i + 1, brace_count, bracket_count, in_string, FALSE)
    ELSE IF text[i] = BACKSLASH
         THEN ScanJson(text, i + 1, brace_count, bracket_count, in_string, TRUE)
    ELSE IF text[i] = QUOTE
         THEN ScanJson(text, i + 1, brace_count, bracket_count, ~in_string, FALSE)
    ELSE IF in_string
         THEN ScanJson(text, i + 1, brace_count, bracket_count, TRUE, FALSE)
    ELSE LET braces == brace_count + (IF text[i] = "{" THEN 1 ELSE 0)
                                   - (IF text[i] = "}" THEN 1 ELSE 0)
             brackets == bracket_count + (IF text[i] = "[" THEN 1 ELSE 0)
                                       - (IF text[i] = "]" THEN 1 ELSE 0)
         IN IF braces = 0 /\ brackets = 0 /\ i > 1
                /\ JsonLoads(SubSeq(text, 1, i))
            THEN SubSeq(text, 1, i)
            ELSE ScanJson(text, i + 1, braces, brackets, FALSE, FALSE)

\* utils.py lines 41-89
ExtractFirstValidJson(text) ==
    IF At(text, 1) \notin {"{", "["} THEN text
    ELSE ScanJson(text, 1, 0, 0, FALSE, FALSE)

\* The positions that close a fence opened before position i
ClosingFences(text, i) == {q \in i..Len(text) : text[q] = FENCE}
FirstOf(S) == CHOOSE i \in S : \A j \in S : i <= j

\* utils.py line 13: re.search for a fence, json, any text taken lazily, a
\* fence:
\* the leftmost opening that has a closing fence and the nearest closing
JsonFenceOpenings(text) ==
    {p \in 1..Len(text) : /\ text[p] = FENCE
                          /\ At(text, p + 1) = JSON_WORD
                          /\ ClosingFences(text, p + 2) # {}}

\* utils.py line 18: the same without the word json
FenceOpenings(text) ==
    {p \in 1..Len(text) : text[p] = FENCE /\ ClosingFences(text, p + 1) # {}}

\* utils.py lines 8-38
extract_json(raw) ==
    LET text == Strip(raw)
        braces == {i \in 1..Len(text) : text[i] = "{"}
        brackets == {i \in 1..Len(text) : text[i] = "["}
    IN IF JsonFenceOpenings(text) # {}
       THEN LET p == FirstOf(JsonFenceOpenings(text))
            IN Strip(SubSeq(text, p + 2, FirstOf(ClosingFences(text, p + 2)) - 1))
       ELSE IF FenceOpenings(text) # {}
       THEN LET p == FirstOf(FenceOpenings(text))
            IN Strip(SubSeq(text, p + 1, FirstOf(ClosingFences(text, p + 1)) - 1))
       ELSE IF At(text, 1) \in {"{", "["}
       THEN ExtractFirstValidJson(text)
       ELSE IF braces # {} /\ (brackets = {} \/ FirstOf(braces) < FirstOf(brackets))
       THEN ExtractFirstValidJson(SubSeq(text, FirstOf(braces), Len(text)))
       ELSE IF brackets # {}
       THEN ExtractFirstValidJson(SubSeq(text, FirstOf(brackets), Len(text)))
       ELSE text

\* What a string literal of a reply may hold between its quotes
StringBodies ==
    {<<>>, <<"a">>, <<"{">>, <<"}">>, <<"[">>, <<"]">>,
     <<BACKSLASH, QUOTE>>, <<BACKSLASH, BACKSLASH>>,
     <<"}", BACKSLASH, QUOTE, "]">>, <<FENCE, "a", FENCE>>}

JsonScalars == {<<"1">>} \cup {<<QUOTE>> \o b \o <<QUOTE>> : b \in StringBodies}

\* Objects and arrays nested up to `depth` deep
RECURSIVE JsonValues(_)
JsonValues(depth) ==
    LET inner == IF depth = 1 THEN JsonScalars ELSE JsonValues(depth - 1)
    IN {<<"{", "}">>, <<"[", "]">>}
       \cup {<<"[">> \o v \o <<"]">> : v \in inner}
       \cup {<<"{", QUOTE, "a", QUOTE, ":">> \o v \o <<"}">> : v \in inner}
       \cup (IF depth = 1 THEN {<<"[", "1", ",", SPACE, "[", "]", "]">>}
             ELSE JsonValues(depth - 1))

TextTokens == {"{", "}", "]", QUOTE, BACKSLASH, "a", SPACE, FENCE}

\* Free text before a value embedded in it: plain words, a quote and a
\* closing brace, a braced fragment that is not JSON, a bracket left open
EmbeddedPrefixes ==
    {<<"a", SPACE>>,
     <<"a", QUOTE, "}", SPACE>>,
     <<"a", SPACE, "{", "a", "}", SPACE>>,
     <<"a", SPACE, "[", "a", SPACE>>}

\* A value followed by trailing text, a value inside a json fence with text
\* around it, or a value in the middle of free text
JsonCalls ==
    [fn : {"extract_json"}, form : {"leading"}, before : {<<>>},
     value : JsonValues(MaxNesting), after : SeqsUpTo(TextTokens, MaxTrailingLen)]
    \cup
    [fn : {"extract_json"}, form : {"fenced"}, before : {<<>>, <<"a", SPACE>>},
     value : JsonValues(MaxNesting), after : {<<>>, <<SPACE, "a">>}]
    \cup
    [fn : {"extract_json"}, form : {"embedded"}, before : EmbeddedPrefixes,
     value : JsonValues(MaxNesting), after : {<<>>, <<SPACE, "a">>}]

InputText(c) ==
    IF c.form = "leading" THEN c.value \o c.after
    ELSE IF c.form = "embedded" THEN c.before \o c.value \o c.after
    ELSE c.before \o <<FENCE, JSON_WORD, SPACE>> \o c.value
                  \o <<SPACE, FENCE>> \o c.after

JsonInit ==
    /\ call \in JsonCalls
    /\ returned = NotReturned
    /\ WorkflowInit /\ LegacyIdle /\ SessionsIdle /\ ProfilesIdle /\ RestIdle

ApplyExtractJson ==
    /\ call.fn = "extract_json"
    /\ ~returned.done
    /\ returned' = Returned(extract_json(InputText(call)))
    /\ UNCHANGED <<call, vars, legacy_vars, session_vars, profile_vars,
                   rest_vars>>

JsonNext == ApplyExtractJson
JsonSpec == JsonInit /\ [][JsonNext]_pure_vars

\* ------------------------------------------------- HybridSearch.search
\* src/tools/search.py lines 63, 64, 71, 113, 86, 128; scores in hundredths
N_RESULTS == 5
SEARCH_THRESHOLD == 70
MIN_RAG_RESULTS == 3
WEB_NUM == 3
MAX_CANDIDATES == 5
WEB_SCORE == 50

\* A search result, by the fields search reads; vector-store results carry
\* no source field, "rag" stands for its absence
Candidate(name, score, source) == [name |-> name, score |-> score, source |-> source]

\* src/db/vector_store.py lines 128-155: should_fallback stays True unless
\* some similarity reaches the threshold
ShouldFallback(rag_results) ==
    ~\E i \in DOMAIN rag_results : rag_results[i].score >= SEARCH_THRESHOLD

\* search.py line 71
NeedsWeb_Both(should_fallback, count) == should_fallback /\ count < MIN_RAG_RESULTS
NeedsWeb(should_fallback, count) == should_fallback \/ count < MIN_RAG_RESULTS

\* search.py lines 88-140: nothing without a configured service or on an
\* API error, else the items found
WebSearch(service, items) == IF service = "available" THEN items ELSE <<>>

\* search.py lines 76-82: the first result of every name, in order
RECURSIVE UniqueByName(_, _, _)
UniqueByName(results, i, seen_names) ==
    IF i > Len(results) THEN <<>>
    ELSE IF results[i].name \in seen_names
         THEN UniqueByName(results, i + 1, seen_names)
         ELSE <<results[i]>>
              \o UniqueByName(results, i + 1, seen_names \cup {results[i].name})

\* search.py line 85, list.sort(key=score, reverse=True): stable, equal scores keep their order
RECURSIVE SortByScore(_)
SortByScore(results) ==
    IF results = <<>> THEN <<>>
    ELSE LET sorted == SortByScore(SubSeq(results, 1, Len(results) - 1))
             last == results[Len(results)]
             ahead == Cardinality({i \in DOMAIN sorted :
                                      sorted[i].score >= last.score})
         IN SubSeq(sorted, 1, ahead) \o <<last>>
            \o SubSeq(sorted, ahead + 1, Len(sorted))

\* search.py lines 43-86: what search returns, and whether it called
\* _web_search
HybridSearch(rag_results, service, items) ==
    LET should_fallback == ShouldFallback(rag_results)
        web == NeedsWeb(should_fallback, Len(rag_results))
        results == IF web THEN rag_results \o WebSearch(service, items)
                   ELSE rag_results
        unique_results == SortByScore(UniqueByName(results, 1, {}))
    IN [results |-> SubSeq(unique_results, 1,
                           IF Len(unique_results) < MAX_CANDIDATES
                           THEN Len(unique_results) ELSE MAX_CANDIDATES),
        web_invoked |-> web]

\* The name of the result at position i of a source: the name both sources
\* know, or one only this position has
SharedName == <<"shared", 0>>
RagNames(i) == {SharedName, <<"rag", i>>}
WebNames(i) == {SharedName, <<"web", i>>}
RagScores == {80, 50, 40}

\* collection.query returns up to n_results results, nearest first
RagResults ==
    UNION {{r \in [1..n -> [name : {SharedName} \cup {<<"rag", i>> : i \in 1..N_RESULTS},
                            score : RagScores, source : {"rag"}]] :
              /\ \A i \in 1..n : r[i].name \in RagNames(i)
              /\ \A i \in 1..(n - 1) : r[i].score >= r[i + 1].score}
           : n \in 0..N_RESULTS}

\* The items of the web search: up to num=3, all with score 0.5
WebItems ==
    UNION {{w \in [1..n -> [name : {SharedName} \cup {<<"web", i>> : i \in 1..WEB_NUM},
                            score : {WEB_SCORE}, source : {"web_search"}]] :
              \A i \in 1..n : w[i].name \in WebNames(i)}
           : n \in 0..WEB_NUM}

SearchCalls ==
    [fn : {"search"}, rag_results : RagResults, service : {"available"},
     items : WebItems]
    \cup [fn : {"search"}, rag_results : RagResults, service : {"unavailable"},
          items : {<<>>}]

SearchInit ==
    /\ call \in SearchCalls
    /\ returned = NotReturned
    /\ WorkflowInit /\ LegacyIdle /\ SessionsIdle /\ ProfilesIdle /\ RestIdle

ApplySearch ==
    /\ call.fn = "search"
    /\ ~returned.done
    /\ returned' = Returned(HybridSearch(call.rag_results, call.service, call.items))
    /\ UNCHANGED <<call, vars, legacy_vars, session_vars, profile_vars,
                   rest_vars>>

SearchNext == ApplySearch
SearchSpec == SearchInit /\ [][SearchNext]_pure_vars

\* ================================================================ claims
PostApprovalNodes ==
    {"human_approval_node", "recommend_tool_node", "tool_executor",
     "guide_generation_node", "reflection_node"}
SimpleNodes == {"simple_llm_node", "simple_executor"}

\* The step just taken is the feedback call of /chat/approve
FeedbackStep ==
    last_input'.node = "approve_plan" /\ last_input.node # "approve_plan"

\* Sub-task k ended by the call bound: 3 executions, fallback text recorded
EndedByFallback(k) ==
    /\ ended[k].execs = MAX_TOOL_CALLS_PER_TASK
    /\ k \in DOMAIN tool_recommendations
    /\ tool_recommendations[k] = FALLBACK_TEXT

C3_SuspendsForReview ==
    /\ (is_complex_task /\ executed \cap PostApprovalNodes # {})
         => feedback_branch \in {"approve", "modify"}
    /\ (is_complex_task /\ response.op = "start")
         => /\ response.status = "pending_approval"
            /\ next_node = "human_approval_node"
            /\ executed = {"llm_router", "planning_node"}
            /\ ThreadId \in active_sessions

\* C3 witness: the start call has returned a multi-step plan for approval.
C3_Witness ==
    /\ is_complex_task /\ response.op = "start" /\ running = "none"
    /\ response.status = "pending_approval"
    /\ Len(sub_tasks) >= 2

PlanSetOrReplaced ==
    \/ running = "none" /\ running' = "start"
    \/ next_node = "planning_node" /\ next_node' # next_node
    \/ FeedbackStep /\ feedback_branch' = "modify"

\* C5: 0 <= current_task_idx <= len(sub_tasks) always; the index moves only
\* by +1 or by a reset to 0 when the plan is set or replaced; guide generation
\* runs only with current_task_idx = len(sub_tasks).
C5_IndexInRange ==
    /\ [](current_task_idx >= 0 /\ current_task_idx <= Len(sub_tasks))
    /\ [](next_node = "guide_generation_node" => current_task_idx = Len(sub_tasks))
    /\ [][\/ current_task_idx' = current_task_idx
          \/ current_task_idx' = current_task_idx + 1
          \/ current_task_idx' = 0 /\ PlanSetOrReplaced]_vars

\* C5 witness: guide generation is about to run on a multi-step plan whose
\* last sub-task was ended by the executor's advance.
C5_Witness ==
    /\ next_node = "guide_generation_node"
    /\ Len(sub_tasks) >= 2
    /\ current_task_idx = Len(sub_tasks)
    /\ ended[Len(ended)].sufficient

\* C6: a classifier output that is not JSON, not an object or lacks
\* is_complex gives is_complex_task = true and the planning path; a run
\* classified complex never executes a node of the simple path.
C6_MalformedClassifierIsComplex ==
    /\ (last_input.node = "llm_router" /\ last_input.out \in MalformedRouterOutputs)
         => (is_complex_task /\ next_node = "planning_node")
    /\ is_complex_task => executed \cap SimpleNodes = {}

\* C6 witness: the router has just consumed a JSON value that is no object.
C6_Witness ==
    /\ last_input.node = "llm_router" /\ last_input.out = "not_object"
    /\ next_node = "planning_node"

\* C7: a feedback whose interpretation cannot be parsed or carries no
\* recognised intent is an approve: plan, index and recommendations stay as
\* they were, nothing is cancelled, and the stream resumes at
\* human_approval_node towards recommendation.
C7_UnparsedFeedbackApproves ==
    [][(FeedbackStep /\ last_input'.out \in UnparsedIntentOutputs)
         => /\ sub_tasks' = sub_tasks
            /\ current_task_idx' = current_task_idx
            /\ tool_recommendations' = tool_recommendations
            /\ feedback_branch' = "approve"
            /\ response'.status # "cancelled"
            /\ ThreadId \in active_sessions'
            /\ running' = "approve"
            /\ final_guide' = final_guide /\ error' = error
            /\ (is_complex_task =>
                  next_node' = "human_approval_node" /\ ~ShouldInterrupt')]_vars

\* C7 witness: an unparseable interpretation has resumed a multi-step plan.
C7_Witness ==
    /\ last_input.node = "approve_plan" /\ last_input.out = "not_json"
    /\ running = "approve" /\ is_complex_task
    /\ Len(sub_tasks) >= 2

\* C8: a feedback interpreted as cancel answers status cancelled with a
\* message, removes the thread from active_sessions and runs no workflow
\* step: the conversation state and the executed nodes stay as they were and
\* no stream is running.
C8_CancelStopsEverything ==
    /\ [][(FeedbackStep /\ feedback_branch' = "cancel")
            => /\ response'.status = "cancelled"
               /\ response'.message # None
               /\ ThreadId \notin active_sessions'
               /\ running' = "none"
               /\ executed' = executed
               /\ next_node' = next_node
               /\ agent_vars' = agent_vars]_vars
    /\ [](response.status = "cancelled"
            => /\ running = "none"
               /\ ThreadId \notin active_sessions
               /\ feedback_branch = "cancel")

\* C8 witness: a multi-step plan has been cancelled.
C8_Witness ==
    /\ response.status = "cancelled" /\ is_complex_task
    /\ Len(sub_tasks) >= 2
    /\ executed = {"llm_router", "planning_node"}

\* C9: after a feedback interpreted as modify, and until a recommendation
\* step has run, sub_tasks is the revised list, current_task_idx is 0 and
\* tool_recommendations is empty.
C9_ModifyReplacesPlan ==
    /\ (last_input.node = "approve_plan" /\ feedback_branch = "modify")
         => /\ response.status # "cancelled"
            /\ last_input.rev.kind = "list" => sub_tasks = last_input.rev.tasks
    /\ (feedback_branch = "modify" /\ "recommend_tool_node" \notin executed)
         => /\ current_task_idx = 0
            /\ tool_recommendations = EmptyMap

\* C9 witness: a modify feedback has replaced the plan by a revised list.
C9_Witness ==
    /\ last_input.node = "approve_plan" /\ feedback_branch = "modify"
    /\ last_input.rev.kind = "list" /\ Len(last_input.rev.tasks) = 2
    /\ sub_tasks = <<"r", "r">>
    /\ is_complex_task

\* C10 (as stated): whenever the planner output is not a well-formed
\* {analysis, subtasks: [...]} object, sub_tasks is the single-element list
\* holding user_query, index and counter are 0, the recommendations are
\* empty and the run suspends for review.
C10_Original ==
    (last_input.node = "planning_node" /\ last_input.out \in MalformedPlannerKinds)
      => /\ sub_tasks = <<UserQuery>>
         /\ current_task_idx = 0
         /\ tool_call_count = 0
         /\ tool_recommendations = EmptyMap
         /\ next_node = "human_approval_node"
         /\ StreamStopped

\* C11 (as stated): for a query classified simple the start operation runs
\* the simple path to END without planning_node and without suspending,
\* answers status completed with a non-null final output, and leaves no
\* pending-approval session for the thread.
C11_Original ==
    (~is_complex_task /\ response.op = "start")
      => /\ next_node = "END"
         /\ "planning_node" \notin executed
         /\ response.status = "completed"
         /\ response.final_guide # None
         /\ ThreadId \notin active_sessions

\* C13 (as stated): an approve call for a thread whose conversation has
\* reached a terminal state is a no-op that answers the already-final state
\* (same status, same final output) and runs no workflow step.
C13_Original ==
    [][(/\ running = "none"
        /\ response.status \in {"completed", "cancelled"}
        /\ running' # "start")
         => /\ response'.status = response.status
            /\ response'.final_guide = response.final_guide
            /\ executed' = executed
            /\ agent_vars' = agent_vars]_vars

\* C15 (as stated): reflection executes exactly once in a conversation that
\* reaches END (once it has run the graph is at END, and END is reached only
\* through it), never in a conversation answered cancelled, and whatever
\* happens inside it the run reaches END.
C15_Original ==
    /\ "reflection_node" \in executed <=> next_node = "END"
    /\ last_input.node = "reflection_node" => next_node = "END"
    /\ response.status = "cancelled" => "reflection_node" \notin executed

\* The deduplicated union of two lists, as a set of items
UnionOf(a, b) == Range(a.v) \cup Range(b.v)
NoRepetition(q) == \A i, j \in DOMAIN q : i # j => q[i] # q[j]

\* C14 (as stated): for every stored profile (none included) and every
\* extracted delta, saving the same delta twice stores the same profile as
\* saving it once; a list field becomes the deduplicated union of old and
\* new, a scalar is overwritten only by a non-empty new value.
C14_Original ==
    (call.fn = "merge" /\ returned.done)
      => /\ SameProfile(returned.value.twice, returned.value.once)
         /\ \A k \in ProfileKeys :
              LET old == call.user_profile[k]
                  new == call.new_preferences[k]
                  got == returned.value.once[k]
              IN /\ (new.t = "list" /\ old.t \in {"list", "absent"})
                      => /\ got.t = "list"
                         /\ Range(got.v) = UnionOf(old, new)
                         /\ NoRepetition(got.v)
                 /\ (new.t = "str" /\ old.t = "str")
                      => got = (IF new.v # <<>> THEN new ELSE old)


\* ---------------------------------------------------------------- C16

\* The sub-tasks of an evaluation that have a top candidate
Scored(results) == {i \in DOMAIN results : results[i] # NoCandidates}

RECURSIVE SumScores(_, _)
SumScores(results, S) ==
    IF S = {} THEN 0
    ELSE LET i == CHOOSE j \in S : TRUE
         IN results[i] + SumScores(results, S \ {i})

LowScored(results) == {i \in Scored(results) : results[i] < LOW_SCORE}

\* evaluate has just decided between increment_retry and guide
AtRetryDecision == legacy_next.node \in {"increment_retry", "guide"}

C17_RetryBound ==
    /\ legacy_state.retry_count <= MAX_RETRIES
    /\ legacy_hist.replans <= MAX_RETRIES
    /\ legacy_state.retry_count = MAX_RETRIES
         => legacy_next.node # "increment_retry"

\* After two retries an evaluation whose scores alone would ask for another
\* one goes on to guide generation
C17_Witness ==
    /\ legacy_state.retry_count = MAX_RETRIES
    /\ legacy_hist.replans = MAX_RETRIES
    /\ legacy_next.node = "guide"
    /\ legacy_state.evaluation_results = <<40, 50, 50, 60>>


\* ---------------------------------------------------------------- C12

\* The step handles a request for thread t
Serves(t) == served' = t /\ <<sessions, requests, replies>>' # <<sessions, requests, replies>>

\* C12: an approve call for a thread_id without a session is answered
\* not found and changes nothing: no session appears, no graph is resumed
\* and every session stays as it was. (A request for a thread without a
\* session is either the beginning of a start or such an approve call.)
C12_NotFoundChangesNothing ==
    [][\A t \in ThreadIds :
         (/\ Serves(t)
          /\ requests[t].op = "none"
          /\ ~sessions[t].present
          /\ requests'[t].op # "start")
         => /\ replies'[t].status = "not_found"
            /\ sessions' = sessions
            /\ requests' = requests
            /\ \A u \in ThreadIds \ {t} : replies'[u] = replies[u]]_session_vars

\* A not-found answer to one thread while the other thread's session waits
\* for approval
C12_Witness ==
    /\ replies["t1"].status = "not_found"
    /\ served = "t1"
    /\ ~sessions["t1"].present
    /\ sessions["t2"].present
    /\ sessions["t2"].graph.next_node = "human_approval_node"

\* ---------------------------------------------------------------- C18

\* C18: a step that handles a request for one thread_id leaves the session
\* entry (with its checkpointed state and plan), the request in progress
\* and the last answer of every other thread_id as they were, in every
\* interleaving of the two clients' requests.
C18_ThreadIsolation ==
    [][\A u \in ThreadIds \ {served'} :
         /\ sessions'[u] = sessions[u]
         /\ requests'[u] = requests[u]
         /\ replies'[u] = replies[u]]_session_vars

\* Both threads hold a session with different plans while a resumed request
\* of one of them is in progress
C18_Witness ==
    /\ sessions["t1"].present /\ sessions["t2"].present
    /\ sessions["t1"].graph.sub_tasks # sessions["t2"].graph.sub_tasks
    /\ requests["t1"].op = "approve"
    /\ sessions["t2"].graph.next_node = "human_approval_node"


\* ---------------------------------------------------------------- C19

\* C19 as stated: for a text that begins with a JSON object or array
\* followed by any trailing text, extract_json returns exactly that first
\* value; for a value inside a json fence it returns the value without
\* the fence and the text around it.
C19_Original ==
    (call.fn = "extract_json" /\ returned.done) => returned.value = call.value


\* ---------------------------------------------------------------- C20

\* C20: search returns at most 5 results with pairwise distinct names in
\* non-increasing order of score; _web_search is called exactly when the
\* vector search signals should_fallback or returned fewer than 3 results;
\* a returned result whose name the vector search also found is the
\* vector-store entry.
C20_SearchResult ==
    (call.fn = "search" /\ returned.done) =>
      LET out == returned.value.results
          rag == call.rag_results
      IN /\ Len(out) <= 5
         /\ \A i, j \in DOMAIN out : i # j => out[i].name # out[j].name
         /\ \A i, j \in DOMAIN out : i < j => out[i].score >= out[j].score
         /\ returned.value.web_invoked <=>
              ((\A i \in DOMAIN rag : rag[i].score < SEARCH_THRESHOLD)
               \/ Len(rag) < 3)
         /\ \A i \in DOMAIN out :
              (\E k \in DOMAIN rag : rag[k].name = out[i].name)
                => \E k \in DOMAIN rag : rag[k] = out[i]

\* A fallback search whose sources share a name and hold more than five
\* names together: five results come back, the shared name among them
C20_Witness ==
    /\ call.fn = "search" /\ returned.done
    /\ returned.value.web_invoked
    /\ Len(returned.value.results) = 5
    /\ \E k \in DOMAIN call.rag_results, w \in DOMAIN call.items :
          /\ call.rag_results[k].name = call.items[w].name
          /\ \E i \in DOMAIN returned.value.results :
                returned.value.results[i] = call.rag_results[k]
    /\ Cardinality({call.rag_results[k].name : k \in DOMAIN call.rag_results}
                   \cup {call.items[w].name : w \in DOMAIN call.items}) > 5

\* ---- C21: delete_session removes exactly the named session: a delete of a
\* stored session_id empties that key and leaves every other entry as it was;
\* a status, approve or delete request for a session_id that is not stored
\* answers not_found (HTTP 404) and leaves the store as it was.
C21_DeleteExactlyOne ==
    [][\A sid \in LegacySessionIds :
         /\ (legacy_response'.op = "delete" /\ legacy_response'.session_id = sid
              /\ legacy_sessions[sid].present)
            => /\ legacy_response'.status = "deleted"
               /\ ~legacy_sessions'[sid].present
               /\ \A other \in LegacySessionIds \ {sid} :
                     legacy_sessions'[other] = legacy_sessions[other]
         /\ (legacy_response'.op \in {"status", "approve", "delete"}
              /\ legacy_response'.session_id = sid
              /\ ~legacy_sessions[sid].present)
            => /\ legacy_response'.status = "not_found"
               /\ legacy_sessions' = legacy_sessions]_legacy_vars
\* A stored session has been deleted while another session is stored
C21_Witness ==
    /\ legacy_response.op = "delete"
    /\ legacy_response.status = "deleted"
    /\ \E other \in LegacySessionIds \ {legacy_response.session_id} :
         /\ legacy_sessions[other].present
         /\ legacy_sessions[other].final_response_available

\* ---- C22: the profile reflection saved last for a user_id is exactly the
\* profile the classification step of that user's next conversation loads,
\* and a save for one user_id leaves the document of every other user_id
\* as it was.
C22_SavedProfileIsLoaded ==
    [][\A t \in ThreadIds :
         LET user_id == conversations[t].user_id
         IN /\ (/\ conversations[t].node = "llm_router"
                 /\ conversations'[t].node = "reflection_node"
                 /\ saved_profiles[user_id].done)
               => conversations'[t].user_profile =
                    [none |-> FALSE, dict |-> saved_profiles[user_id].dict]
            /\ (/\ conversations[t].node = "reflection_node"
                 /\ conversations'[t].node = "none")
               => \A d \in DocumentIds \ {<<"profile", user_id>>} :
                     profile_collection'[d] = profile_collection[d]
       ]_profile_vars
\* A conversation has loaded the profile saved for its user while another
\* profile is stored for the other user
C22_Witness ==
    \E t \in ThreadIds : \E other \in UserIds :
        /\ conversations[t].node = "reflection_node"
        /\ other # conversations[t].user_id
        /\ saved_profiles[conversations[t].user_id].done
        /\ ~conversations[t].user_profile.none
        /\ conversations[t].user_profile.dict.interests = ListValue(<<1, 2>>)
        /\ saved_profiles[other].done
        /\ saved_profiles[other].dict # conversations[t].user_profile.dict

C24_Original ==
    [][error # None
         => ~(running \in {"start", "approve"} /\ ~StreamStopped)]_vars

\* ---- C25 (as stated): when guide generation starts on the complex path,
\* tool_recommendations holds an entry task_k for every k in
\* 1..len(sub_tasks): every advance of current_task_idx came with a recorded
\* recommendation for the sub-task that ended.
C25_Original ==
    (CanRun("guide_generation_node") /\ is_complex_task)
      => DOMAIN tool_recommendations = 1..Len(sub_tasks)

\* ---- C26 (as stated): the branch approve_plan takes matches the structured
\* action of the request: action = cancel (the fixed cancel text) always
\* answers cancelled and starts no stream; action = approve (the fixed
\* approval text) never revises or cancels the plan, whatever the reasoning
\* service returns for the intent analysis.
C26_Original ==
    [][FeedbackStep
         => /\ last_input'.text = "cancel_text"
                => (response'.status = "cancelled" /\ running' = "none")
            /\ last_input'.text = "approve_text"
                => (feedback_branch' = "approve" /\ sub_tasks' = sub_tasks)]_vars

\* ---- C27: in every reachable state tool_recommendations holds only keys
\* task_k with 1 <= k <= current_task_idx; an entry is written once, for the
\* sub-task that the writing step ends, and is not overwritten; the dict is
\* empty right after the plan step and right after a modify feedback.
C27_RecommendationKeys ==
    /\ [](DOMAIN tool_recommendations \subseteq 1..current_task_idx)
    /\ [][/\ (CanRun("planning_node") => tool_recommendations' = EmptyMap)
          /\ ((FeedbackStep /\ feedback_branch' = "modify")
                => tool_recommendations' = EmptyMap)
          /\ \A k \in DOMAIN tool_recommendations' :
                IF k \in DOMAIN tool_recommendations
                THEN tool_recommendations'[k] = tool_recommendations[k]
                ELSE k = current_task_idx + 1 /\ current_task_idx' = k]_vars
\* After a modify feedback the first sub-task of the revised plan was ended
\* by the executor without an entry and the second has its recommendation
C27_Witness ==
    /\ feedback_branch = "modify"
    /\ user_feedback = "feedback"
    /\ Len(ended) = 2
    /\ ended[1].sufficient
    /\ DOMAIN tool_recommendations = {2}
    /\ current_task_idx = 2
    /\ Len(sub_tasks) >= 3

C29_Original ==
    last_input.node = "planning_node"
      => \/ Len(sub_tasks) \in 2..5
         \/ (last_input.out \in MalformedPlannerKinds /\ sub_tasks = <<UserQuery>>)

\* ---- C30 (as stated): for free text with a JSON value in the middle (no
\* fence, not at the start) extract_json returns the first valid top-level
\* object or array of the text, also when a bracketed or braced fragment
\* that is not valid JSON stands before it.
C30_Original ==
    (/\ call.fn = "extract_json" /\ call.form = "embedded"
     /\ FENCE \notin Range(InputText(call))
     /\ returned.done)
      => returned.value = call.value

\* C31: for one thread_id the pipeline after the approval (recommendation
\* loop, guide, reflection and its profile write) runs at most once, also
\* when two feedback submissions for the thread_id are handled at the same
\* time.  As stated this does not hold: both submissions pass the lookup
\* before either removes the session, and both resume the run.
C31_Original ==
    pipeline_runs <= 1

\* C32: in the plan/review/research/evaluate variant research runs only on a
\* plan the user has approved.  Every execution of the plan step (the first
\* plan, a revision after feedback, a retry after low scores) leaves
\* plan_approved false and stops the run before review; the run enters
\* research only from review, with plan_approved set true by the approval of
\* the plan the state holds, and that plan is the one research works on.
C32_ResearchOnlyOnApprovedPlan ==
    [][ /\ (legacy_next.node = "plan" /\ legacy_next'.node # "plan"
              => /\ ~legacy_state'.plan_approved
                 /\ LegacyInterrupt')
        /\ (legacy_next.node # "research" /\ legacy_next'.node = "research"
              => /\ legacy_next.node = "review"
                 /\ legacy_running = "approve"
                 /\ legacy_hist.approved
                 /\ legacy_state.plan_approved
                 /\ legacy_state'.plan = legacy_state.plan
                 /\ legacy_state'.plan_approved)
        /\ (legacy_next.node = "research" => legacy_state.plan_approved)
      ]_legacy_vars

\* Research has run on a plan made after both a feedback revision and a
\* retry for low scores
C32_Witness ==
    /\ legacy_next.node = "evaluate"
    /\ legacy_state.retry_count > 0
    /\ legacy_state.user_feedback # None
    /\ legacy_state.plan_approved

\* C33: after a retry decision for low scores retry_count is incremented and
\* the plan step runs again on the retry path (the prior plan and the
\* evaluation results as context, a different decomposition asked for), in
\* every conversation, also after an earlier rejection with feedback.  As
\* stated this does not hold: user_feedback stays in the state after the
\* rejection, and the planner then takes the feedback path.
C33_Original ==
    [][ /\ (legacy_next.node = "increment_retry" /\ legacy_next'.node = "plan"
              => legacy_state'.retry_count = legacy_state.retry_count + 1)
        /\ (legacy_next.node = "plan" /\ legacy_next'.node = "review"
                /\ legacy_hist.after_retry
              => legacy_hist'.planner_mode = "retry")
      ]_legacy_vars

\* C34: in the plan/review/research/evaluate variant /approve with
\* approved=true answers completed only when the workflow has reached END
\* with final_response produced; when the evaluation sends the run back to
\* plan and it is suspended again for approval, the answer is not completed.
\* As stated this does not hold: the approved branch answers completed
\* whatever the state the invoke returned.
C34_Original ==
    (/\ legacy_running = "none"
     /\ legacy_response.op = "approve"
     /\ legacy_response.status = "completed")
      => /\ legacy_next.node = "END"
         /\ legacy_state.final_response # ""

\* C35: on the simple path simple_tool_count never exceeds 3; in one
\* conversation simple_tool_executor runs at most 3 times and simple_llm_node
\* at most 4 times, final_answer is set at most once while the loop runs and
\* exactly once when it is left, and the loop is left to reflection_node and
\* END, whatever the reasoning service returns.
C35_SimpleLoopBounded ==
    /\ simple_tool_count <= MAX_TOOL_CALLS_PER_TASK
    /\ simple_runs.executor <= MAX_TOOL_CALLS_PER_TASK
    /\ simple_runs.llm <= MAX_TOOL_CALLS_PER_TASK + 1
    /\ simple_runs.answers <= 1
    /\ simple_runs.executor <= simple_tool_count
    /\ (simple_runs.llm > 0 /\ next_node \in {"simple_llm_node", "simple_executor"})
          => simple_runs.answers = 0
    /\ (simple_runs.llm > 0 /\ next_node \notin {"simple_llm_node", "simple_executor"})
          => /\ simple_runs.answers = 1
             /\ final_answer # None
             /\ next_node \in {"reflection_node", "END"}
             /\ next_node = "END" => "reflection_node" \in executed

\* A conversation that used all three tool calls and was then answered
C35_Witness ==
    /\ simple_runs = [llm |-> 4, executor |-> 3, answers |-> 1]
    /\ simple_tool_count = 3
    /\ next_node = "END"
    /\ final_answer # None

\* C36: when the output of the plan revision is not parseable as a JSON list
\* (not JSON, or JSON that is not a list), a modify feedback leaves sub_tasks
\* equal to the prior plan, sets current_task_idx to 0, empties
\* tool_recommendations and records the feedback; the revision does not
\* raise, the handler goes on to resume the run.
C36_UnparseableRevisionKeepsPlan ==
    [][ (/\ FeedbackStep
         /\ feedback_branch' = "modify"
         /\ last_input'.rev.kind \in {"not_json", "not_list"})
          => /\ sub_tasks' = sub_tasks
             /\ current_task_idx' = 0
             /\ tool_recommendations' = EmptyMap
             /\ user_feedback' = "feedback"
             /\ running' = "approve"
             /\ error' = error
      ]_vars

\* The state right after a modify feedback whose revision was not JSON, the
\* plan of two or more sub-tasks still in place
C36_Witness ==
    /\ last_input.node = "approve_plan"
    /\ last_input.rev.kind = "not_json"
    /\ feedback_branch = "modify"
    /\ running = "approve"
    /\ user_feedback = "feedback"
    /\ Len(sub_tasks) >= 2

\* C37: in the single-file variant one call of approve_plan or of
\* resume_after_approval after an approving feedback runs everything that is
\* left (every sub-task's recommendation loop with its tool executions, the
\* guide and reflection), so that final_guide is set when the call returns.
\* As stated this does not hold: the interrupt before recommend_tool_node
\* fires again each time the loop comes back to that node.
C37_Original ==
    (/\ single_running = "none"
     /\ single_response.op \in {"approve", "resume"}
     /\ single_response.intent = "approve"
     /\ single_response.status \in {"completed", "state"})
      => /\ single_next.node = "END"
         /\ single_state.final_guide # None
         /\ single_response.final_guide # None

\* The value stored under a key holds what write_memory wrote under it
HoldsWritten(stored, written) ==
    CASE written.t = "absent" -> TRUE
      [] written.t = "list" ->
            stored.t = "list" /\ Range(written.v) \subseteq Range(stored.v)
      [] OTHER -> stored = written

\* C38: a profile written through write_memory during a conversation is not
\* lost at the end of it: the profile stored after reflection still holds
\* the list entries and the scalars that write_memory wrote, unless the
\* extracted delta overwrites them.  As stated this does not hold:
\* reflection merges the delta into the profile the classification step
\* loaded before the write and saves that over the written profile.
C38_Original ==
    [][\A t \in ThreadIds :
         LET user_id == conversations[t].user_id
             written == conversations[t].written
         IN (/\ conversations[t].node = "reflection_node"
             /\ conversations'[t].node = "none"
             /\ written.done
             /\ load_user_profile(profile_collection, user_id).dict
                    = written.dict)
              => \A k \in ProfileKeys :
                   LET stored ==
                         load_user_profile(profile_collection', user_id).dict[k]
                   IN \/ HoldsWritten(stored, written.dict[k])
                      \/ \E delta \in ReflectedPreferences :
                            /\ delta[k].t # "absent"
                            /\ HoldsWritten(stored, delta[k])
       ]_profile_vars

\* C39: in the plan/review/research/evaluate variant the preferences the
\* memory step saves at the end of a session are stored under the key from
\* which load_user_profile loads at the start of that user's next request,
\* so the later request sees the saved preferences.  As stated this does
\* not hold: the save goes to the file of "default", the load reads the file
\* of the session_id.
C39_Original ==
    [][\A s \in MemoryUserIds :
         (/\ memory_sessions[s].stage = "done"
          /\ memory_sessions'[s].stage = "running")
           => /\ MemoryFile(memory_sessions'[s].load_key)
                   = MemoryFile(memory_sessions[s].save_key)
              /\ memory_sessions'[s].loaded
                   = memory_files[memory_sessions[s].save_key]
       ]_memory_vars

\* C40: every tool that simple_llm_node binds to the reasoning service is
\* executable by simple_tool_executor: a tool call for a bound tool name is
\* dispatched to its implementation, not answered with the unknown-tool
\* observation.  As stated this does not hold: calculate_math is bound and
\* is missing from SIMPLE_TOOLS_MAP.
C40_Original ==
    [][ (/\ next_node = "simple_executor"
         /\ next_node' = "simple_llm_node"
         /\ tool_result \in SimpleBoundTools)
          => \A raises \in BOOLEAN :
                SimpleObservation(tool_result, raises) # "unknown_tool"
      ]_vars

====
